---- MODULE Spec2Model ----
(***************************************************************************)
(* Model of the ATR adaptive stop-loss bot: the stop/risk calculator       *)
(* (calculator.py), the point-value lookup (utils.py) and the refresh      *)
(* cycle that owns the ratchet store (main.py).                            *)
(*                                                                         *)
(* Number representation.  The program computes with binary floats; the    *)
(* model computes with exact fixed-point integers:                         *)
(*   prices, ATR values, stops, minTick : thousandths (100.37 is 100370)   *)
(*   ATR ratios                         : tenths      (1.5 is 15)          *)
(* ATR inputs are multiples of 10 thousandths, so atr * ratio is exact.    *)
(* Python's None for an ATR value is the integer None (ATR is never < 0).  *)
(* A dict is a function whose DOMAIN is the set of keys present.           *)
(***************************************************************************)
EXTENDS Integers, Sequences, FiniteSets, TLC

VARIABLES
    highest_stop_losses,  \* dict symbol -> ratchet value (window and worker share it)
    cs,                   \* frame of the last compute_stop_loss call
    cr,                   \* frame of the calculate_risk call
    positions_data,       \* dict symbol -> p_data assembled by process_positions
    symbol_stop_enabled,  \* per symbol: the "Send Stop" checkbox
    stop_history_file,    \* contents of stop_history.json
    broker_stops,         \* symbols that have an active stop order at the broker
    send_adaptive_stops,  \* the window's global "Send Adaptive Stops" switch
    open_orders,          \* broker: dict symbol -> stop prices of the live stop
                          \* orders that carry the symbol's orderRef
    orders_to_submit,     \* worker: dict symbol -> stop price handed to
                          \* process_stop_orders in stage 4 of the cycle
    worker_pc,            \* where the DataWorker of the current cycle is
    todo,                 \* positions of the cycle not yet processed
    final_positions_data, \* worker: dict symbol -> p_data processed this cycle
    ui_queue,             \* worker signals queued to the window's thread
    bars,                 \* dict symbol -> bars of the broker's last non-empty answer
    new_bars,             \* bars that closed since the first request
    market_statuses,      \* dict symbol -> session status
    atr_state,            \* atr_state.json, which the ATRProcessor loads and saves:
                          \* dict symbol -> candle size -> [last_atr, tr_history]
    atr_history,          \* atr_history.json, likewise:
                          \* dict symbol -> candle size -> dict timestamp -> ATR
    ar,                   \* frame of the last _process_symbol call
    now,                  \* the clock, in bar intervals
    symbol_candle_size,   \* the window's per-symbol timeframe setting
    window_atr_state,     \* ATRWindow.atr_state, the window's copy in memory
    window_atr_history,   \* ATRWindow.atr_history, the window's copy in memory
    updated_atr_state,    \* worker: the state dict handed to data_ready
    updated_atr_history   \* worker: the history dict handed to data_ready

calc_vars == <<highest_stop_losses, cs, cr, positions_data>>

order_vars == <<send_adaptive_stops, open_orders, orders_to_submit>>

cycle_vars == <<symbol_stop_enabled, stop_history_file, broker_stops, order_vars,
                worker_pc, todo, final_positions_data, ui_queue>>

store_vars == <<now, symbol_candle_size, window_atr_state, window_atr_history,
                updated_atr_state, updated_atr_history>>

atr_vars == <<bars, new_bars, market_statuses, atr_state, atr_history, ar,
              store_vars>>

vars == <<highest_stop_losses, cs, cr, positions_data, symbol_stop_enabled,
          stop_history_file, broker_stops, send_adaptive_stops, open_orders,
          orders_to_submit, worker_pc, todo,
          final_positions_data, ui_queue, bars, new_bars, market_statuses,
          atr_state, atr_history, ar, now, symbol_candle_size,
          window_atr_state, window_atr_history, updated_atr_state,
          updated_atr_history>>

\* "ES" is in the static point-value table, "XYZ" is not
Symbols == {"ES", "XYZ"}

\* ---- bounds of the inputs -------------------------------------------------
MaxQty == 1
MaxAtr == 2

None == -1
DefaultAtrRatio == 15
hypothetical_account_value == 6000

Quantities == (0 - MaxQty)..MaxQty
AtrValues == {None} \cup {1000 * k : k \in 1..MaxAtr}
AtrRatios == {10, DefaultAtrRatio}
Prices == {0, 1000, 103370}
MinTicks == {0, 250}

\* ---- dict helpers ---------------------------------------------------------
EmptyDict == [k \in {} |-> 0]

DictGet(d, k, default) == IF k \in DOMAIN d THEN d[k] ELSE default

DictSet(d, k, v) == [x \in DOMAIN d \cup {k} |-> IF x = k THEN v ELSE d[x]]

DictDel(d, k) == [x \in DOMAIN d \ {k} |-> d[x]]

Abs(x) == IF x < 0 THEN 0 - x ELSE x

\* ---- calculator.py: compute_stop_loss -------------------------------------

\* Decimal quantize(Decimal('1'), rounding=ROUND_DOWN): truncation toward zero
QuantizeRoundDown(num, den) ==
    IF num >= 0 THEN num \div den ELSE 0 - ((0 - num) \div den)

\* raw_stop = current_price - (atr_value * atr_ratio), whatever the quantity
RawStop(current_price, atr_value, atr_ratio, quantity) ==
    current_price - ((atr_value * atr_ratio) \div 10)

\* final_stop: the raw stop, tick-rounded when min_tick > 0 and quantity != 0
TickRound(raw_stop, min_tick, quantity) ==
    IF min_tick > 0 /\ quantity # 0
    THEN QuantizeRoundDown(raw_stop, min_tick) * min_tick
    ELSE raw_stop

\* variant: the guard forgets the price
NoValidData_AtrOnly(current_price, atr_value) ==
    atr_value = None

\* the guard of the early return
NoValidData(current_price, atr_value) ==
    atr_value = None \/ current_price <= 0

\* the early return: the last known ratchet value (0 if none), 'held'
HeldReturn(h, symbol) ==
    [stop |-> DictGet(h, symbol, 0), status |-> "held", store |-> h]

\* variant: no ratchet, every computed stop is taken
RatchetImproves_Always(h, symbol, quantity, final_stop) ==
    TRUE

\* variant: an equal stop counts as an improvement
RatchetImproves_NonStrict(h, symbol, quantity, final_stop) ==
    IF quantity > 0
    THEN final_stop >= DictGet(h, symbol, 0)
    ELSE symbol \notin DOMAIN h \/ final_stop <= h[symbol]

\* the ratchet comparison: a long against get(symbol, 0), everything that is
\* not long (short and flat) against get(symbol, inf)
RatchetImproves(h, symbol, quantity, final_stop) ==
    IF quantity > 0
    THEN final_stop > DictGet(h, symbol, 0)
    ELSE symbol \notin DOMAIN h \/ final_stop < h[symbol]

\* the value the ratchet branches return with 'held': prev_highest for a long,
\* prev_highest_short otherwise (an entry exists whenever that branch holds)
RatchetHeld(h, symbol, quantity) ==
    IF quantity > 0 THEN DictGet(h, symbol, 0) ELSE h[symbol]

\* apply_ratchet = True
Ratcheted(h, symbol, quantity, final_stop) ==
    IF RatchetImproves(h, symbol, quantity, final_stop)
    THEN [stop |-> final_stop, status |-> "new",
          store |-> DictSet(h, symbol, final_stop)]
    ELSE [stop |-> RatchetHeld(h, symbol, quantity), status |-> "held",
          store |-> h]

\* variant: the what-if path still consults the ratchet store
Unratcheted_ReadsStore(h, symbol, final_stop) ==
    [stop |-> IF symbol \in DOMAIN h /\ h[symbol] > final_stop
              THEN h[symbol] ELSE final_stop,
     status |-> "new", store |-> h]

\* apply_ratchet = False
Unratcheted(h, symbol, final_stop) ==
    [stop |-> final_stop, status |-> "new", store |-> h]

\* the whole function: result, status, the store afterwards and the locals
\* raw_stop and final_stop (computed is FALSE when the early return is taken)
compute_stop_loss(h, symbol, quantity, current_price, atr_value, atr_ratio, min_tick, apply_ratchet) ==
    IF NoValidData(current_price, atr_value)
    THEN LET r == HeldReturn(h, symbol)
         IN  [stop |-> r.stop, status |-> r.status, store |-> r.store,
              computed |-> FALSE, raw_stop |-> 0, final_stop |-> 0]
    ELSE LET raw_stop == RawStop(current_price, atr_value, atr_ratio, quantity)
             final_stop == TickRound(raw_stop, min_tick, quantity)
             r == IF apply_ratchet
                  THEN Ratcheted(h, symbol, quantity, final_stop)
                  ELSE Unratcheted(h, symbol, final_stop)
         IN  [stop |-> r.stop, status |-> r.status, store |-> r.store,
              computed |-> TRUE, raw_stop |-> raw_stop,
              final_stop |-> final_stop]

\* ---- utils.py: get_point_value ---------------------------------------------
\* point values are in hundredths of a dollar per 1.00 of price (50.0 is 5000)
CONTRACT_POINT_VALUES ==
    "ES" :> 5000 @@ "NQ" :> 2000 @@ "YM" :> 500 @@ "RTY" :> 5000 @@
    "MES" :> 500 @@ "MNQ" :> 200 @@ "MYM" :> 50 @@ "M2K" :> 500 @@
    "ZN" :> 100000 @@ "ZB" :> 100000 @@ "ZF" :> 100000 @@ "ZT" :> 200000 @@
    "MZN" :> 10000 @@ "10Y" :> 100000 @@ "2YY" :> 200000 @@
    "30Y" :> 100000 @@ "ZC" :> 5000 @@ "ZS" :> 5000 @@ "ZW" :> 5000 @@
    "ZM" :> 10000 @@ "ZL" :> 60000 @@ "HE" :> 40000 @@ "LE" :> 40000 @@
    "GF" :> 50000 @@ "MZC" :> 500 @@ "MZS" :> 1000 @@ "MZW" :> 500 @@
    "MZM" :> 1000 @@ "MZL" :> 6000 @@ "GC" :> 10000 @@ "SI" :> 500000 @@
    "HG" :> 2500000 @@ "PL" :> 5000 @@ "MGC" :> 1000 @@ "SIL" :> 100000 @@
    "MHG" :> 250000 @@ "CL" :> 100000 @@ "NG" :> 1000000 @@
    "RB" :> 42000 @@ "HO" :> 42000 @@ "MCL" :> 10000 @@ "MNG" :> 100000 @@
    "EUR" :> 12500000 @@ "6E" :> 12500000 @@ "6J" :> 1250000000 @@
    "6B" :> 6250000 @@ "6A" :> 10000000 @@ "6C" :> 10000000 @@
    "M6E" :> 1250000

\* priceMagnifier and mdSizeMultiplier are integers (None: key absent or null),
\* multiplier is in hundredths; the result names the branch taken and whether
\* it logged a warning
get_point_value_MetadataFirst(symbol, price_magnifier, md_size_multiplier, multiplier) ==
    IF price_magnifier > 1 /\ md_size_multiplier # None
    THEN [value |-> (md_size_multiplier * 100) \div price_magnifier,
          path |-> "derived", warned |-> TRUE]
    ELSE IF symbol \in DOMAIN CONTRACT_POINT_VALUES
    THEN [value |-> CONTRACT_POINT_VALUES[symbol], path |-> "table",
          warned |-> FALSE]
    ELSE IF md_size_multiplier # None /\ md_size_multiplier > 1
    THEN [value |-> md_size_multiplier * 100, path |-> "mdSizeMultiplier",
          warned |-> TRUE]
    ELSE [value |-> IF multiplier > 0 THEN multiplier ELSE 100,
          path |-> "multiplier", warned |-> TRUE]

get_point_value(symbol, price_magnifier, md_size_multiplier, multiplier) ==
    IF symbol \in DOMAIN CONTRACT_POINT_VALUES
    THEN [value |-> CONTRACT_POINT_VALUES[symbol], path |-> "table",
          warned |-> FALSE]
    ELSE IF price_magnifier > 1 /\ md_size_multiplier # None
    THEN [value |-> (md_size_multiplier * 100) \div price_magnifier,
          path |-> "derived", warned |-> TRUE]
    ELSE IF md_size_multiplier # None /\ md_size_multiplier > 1
    THEN [value |-> md_size_multiplier * 100, path |-> "mdSizeMultiplier",
          warned |-> TRUE]
    ELSE [value |-> IF multiplier > 0 THEN multiplier ELSE 100,
          path |-> "multiplier", warned |-> TRUE]

\* ---- calculator.py: calculate_risk ----------------------------------------
\* risk_value is in 1/100000 dollar (thousandths of price times hundredths of
\* point value); its kind is the Python type of the first element returned, a
\* number or the string "NO RISK".  percent_risk = risk_value / 6000 * 100 is
\* kept as the exact fraction num / den.
calculate_risk(symbol, positions_held, current_price, avg_cost, price_magnifier, md_size_multiplier, multiplier, computed_stop) ==
    IF computed_stop # None /\ computed_stop # 0 /\ current_price > 0
    THEN LET risk_in_points == Abs(current_price - computed_stop)
             point_value == get_point_value(symbol, price_magnifier,
                                md_size_multiplier, multiplier).value
             risk_value == risk_in_points * point_value * Abs(positions_held)
         IN  [kind |-> "number", risk_value |-> risk_value,
              percent_risk |-> [num |-> risk_value,
                                den |-> hypothetical_account_value \div 100]]
    ELSE [kind |-> "number", risk_value |-> 0,
          percent_risk |-> [num |-> 0,
                            den |-> hypothetical_account_value \div 100]]

\* ---- frames and initial state ----------------------------------------------
IdleFrame ==
    [op |-> "idle", symbol |-> "ES", quantity |-> 0, current_price |-> 0,
     atr_value |-> None, atr_ratio |-> DefaultAtrRatio, min_tick |-> 0,
     apply_ratchet |-> FALSE, had_entry |-> FALSE, stored |-> 0,
     computed |-> FALSE, raw_stop |-> 0, final_stop |-> 0,
     stop |-> 0, status |-> "held"]

IdleRisk ==
    [op |-> "idle", symbol |-> "ES", positions_held |-> 0,
     current_price |-> 0, avg_cost |-> 0, price_magnifier |-> 1,
     md_size_multiplier |-> None, multiplier |-> 100, computed_stop |-> 0,
     point_value |-> 0, path |-> "none", warned |-> FALSE,
     kind |-> "number", risk_value |-> 0,
     percent_risk |-> [num |-> 0, den |-> hypothetical_account_value \div 100]]

\* ATRWindow.__init__ on the persisted files: both dicts are loaded into the
\* window, every symbol has the default timeframe, the worker has produced
\* nothing
InitStore ==
    /\ now = 0
    /\ symbol_candle_size = EmptyDict
    /\ window_atr_state = atr_state
    /\ window_atr_history = atr_history
    /\ updated_atr_state = EmptyDict
    /\ updated_atr_history = EmptyDict

\* the ATR engine before its first run: no state file, no history file, nothing
\* fetched yet
InitEngine ==
    /\ bars = EmptyDict
    /\ new_bars = 0
    /\ market_statuses = EmptyDict
    /\ atr_state = EmptyDict
    /\ atr_history = EmptyDict
    /\ ar = EmptyDict
    /\ InitStore

\* the window after construction: nothing persisted yet, every symbol enabled
\* (symbol_stop_enabled.get(symbol, True)), no worker
InitCycle ==
    /\ symbol_stop_enabled = [s \in Symbols |-> TRUE]
    /\ stop_history_file = EmptyDict
    /\ broker_stops = {}
    /\ send_adaptive_stops = FALSE
    /\ open_orders = [s \in Symbols |-> << >>]
    /\ orders_to_submit = EmptyDict
    /\ worker_pc = "idle"
    /\ todo = {}
    /\ final_positions_data = EmptyDict
    /\ ui_queue = << >>

Init ==
    /\ highest_stop_losses = EmptyDict
    /\ cs = IdleFrame
    /\ cr = IdleRisk
    /\ positions_data = EmptyDict
    /\ InitCycle
    /\ InitEngine

\* ---- the calculator called directly ----------------------------------------
CallFrame(h, symbol, quantity, current_price, atr_value, atr_ratio, min_tick, apply_ratchet, r) ==
    [op |-> "compute_stop_loss", symbol |-> symbol,
     quantity |-> quantity, current_price |-> current_price,
     atr_value |-> atr_value, atr_ratio |-> atr_ratio,
     min_tick |-> min_tick, apply_ratchet |-> apply_ratchet,
     had_entry |-> symbol \in DOMAIN h, stored |-> DictGet(h, symbol, 0),
     computed |-> r.computed, raw_stop |-> r.raw_stop,
     final_stop |-> r.final_stop, stop |-> r.stop, status |-> r.status]

\* one call of compute_stop_loss on the calculator's ratchet store
ComputeStopLoss(symbol, quantity, current_price, atr_value, atr_ratio, min_tick, apply_ratchet) ==
    LET r == compute_stop_loss(highest_stop_losses, symbol, quantity,
                               current_price, atr_value, atr_ratio, min_tick,
                               apply_ratchet)
    IN  /\ highest_stop_losses' = r.store
        /\ cs' = CallFrame(highest_stop_losses, symbol, quantity,
                           current_price, atr_value, atr_ratio, min_tick,
                           apply_ratchet, r)
        /\ UNCHANGED <<cr, positions_data>>
        /\ UNCHANGED cycle_vars
        /\ UNCHANGED atr_vars

CalcSymbols == {"ES"}

\* compute_stop_loss reads only the sign of the quantity: a short, a flat and a
\* long position
CalcQuantities == {0 - MaxQty, 0, MaxQty}

NextCalc ==
    \E symbol \in CalcSymbols, quantity \in CalcQuantities,
       current_price \in Prices, atr_value \in AtrValues,
       atr_ratio \in AtrRatios, min_tick \in MinTicks,
       apply_ratchet \in BOOLEAN :
        ComputeStopLoss(symbol, quantity, current_price, atr_value, atr_ratio,
                        min_tick, apply_ratchet)

\* the store may start with what load_stop_history read from the file
InitCalc ==
    /\ highest_stop_losses \in {EmptyDict, "XYZ" :> 100250}
    /\ cs = IdleFrame
    /\ cr = IdleRisk
    /\ positions_data = EmptyDict
    /\ InitCycle
    /\ InitEngine

SpecCalc == InitCalc /\ [][NextCalc]_vars

\* ---- process_positions: one position of the loop ---------------------------
\* compute_stop_loss with the ratchet, then calculate_risk on its result, then
\* the p_data record handed to the window
ProcessPosition(symbol, quantity, current_price, avg_cost, atr_value, atr_ratio, min_tick) ==
    LET r == compute_stop_loss(highest_stop_losses, symbol, quantity,
                               current_price, atr_value, atr_ratio, min_tick,
                               TRUE)
        k == calculate_risk(symbol, quantity, current_price, avg_cost, 1,
                            None, 100, r.stop)
    IN  /\ highest_stop_losses' = r.store
        /\ cs' = CallFrame(highest_stop_losses, symbol, quantity,
                           current_price, atr_value, atr_ratio, min_tick,
                           TRUE, r)
        /\ positions_data' =
              DictSet(positions_data, symbol,
                      [positions_held |-> quantity,
                       current_price |-> current_price,
                       atr_value |-> atr_value, atr_ratio |-> atr_ratio,
                       computed_stop_loss |-> r.stop,
                       stop_status |-> r.status,
                       dollar_risk |-> k.risk_value,
                       percent_risk |-> k.percent_risk,
                       status |-> "Ready"])
        /\ UNCHANGED cr
        /\ UNCHANGED cycle_vars
        /\ UNCHANGED atr_vars

NextProcess ==
    \E symbol \in CalcSymbols, quantity \in Quantities,
       current_price \in Prices, atr_value \in AtrValues,
       atr_ratio \in AtrRatios, min_tick \in MinTicks :
        ProcessPosition(symbol, quantity, current_price, 100000, atr_value,
                        atr_ratio, min_tick)

SpecProcess == Init /\ [][NextProcess]_vars

\* ---- calculate_risk called on drawn inputs ---------------------------------
RiskPrices == {0, 105000}
AvgCosts == {0, 100000}
ComputedStops == {None, 0, 99990, 100000, 105000}
PriceMagnifiers == {1, 100}
MdSizeMultipliers == {None, 1, 50}
Multipliers == {0, 100, 2000}

PendingRisk(symbol, positions_held, current_price, avg_cost, price_magnifier, md_size_multiplier, multiplier, computed_stop) ==
    [op |-> "pending", symbol |-> symbol, positions_held |-> positions_held,
     current_price |-> current_price, avg_cost |-> avg_cost,
     price_magnifier |-> price_magnifier,
     md_size_multiplier |-> md_size_multiplier, multiplier |-> multiplier,
     computed_stop |-> computed_stop,
     point_value |-> 0, path |-> "none", warned |-> FALSE,
     kind |-> "number", risk_value |-> 0,
     percent_risk |-> [num |-> 0, den |-> hypothetical_account_value \div 100]]

InitRisk ==
    /\ highest_stop_losses = EmptyDict
    /\ cs = IdleFrame
    /\ positions_data = EmptyDict
    /\ InitCycle
    /\ InitEngine
    /\ \E symbol \in Symbols, positions_held \in Quantities,
          current_price \in RiskPrices, avg_cost \in AvgCosts,
          price_magnifier \in PriceMagnifiers,
          md_size_multiplier \in MdSizeMultipliers,
          multiplier \in Multipliers, computed_stop \in ComputedStops :
            cr = PendingRisk(symbol, positions_held, current_price, avg_cost,
                             price_magnifier, md_size_multiplier, multiplier,
                             computed_stop)

CalculateRisk ==
    /\ cr.op = "pending"
    /\ LET k == calculate_risk(cr.symbol, cr.positions_held, cr.current_price,
                               cr.avg_cost, cr.price_magnifier,
                               cr.md_size_multiplier, cr.multiplier,
                               cr.computed_stop)
       IN  cr' = [cr EXCEPT !.op = "calculate_risk", !.kind = k.kind,
                            !.risk_value = k.risk_value,
                            !.percent_risk = k.percent_risk]
    /\ UNCHANGED <<highest_stop_losses, cs, positions_data>>
    /\ UNCHANGED cycle_vars
    /\ UNCHANGED atr_vars

\* get_point_value called on the drawn contract
GetPointValue ==
    /\ cr.op = "pending"
    /\ LET v == get_point_value(cr.symbol, cr.price_magnifier,
                                cr.md_size_multiplier, cr.multiplier)
       IN  cr' = [cr EXCEPT !.op = "get_point_value",
                            !.point_value = v.value, !.path = v.path,
                            !.warned = v.warned]
    /\ UNCHANGED <<highest_stop_losses, cs, positions_data>>
    /\ UNCHANGED cycle_vars
    /\ UNCHANGED atr_vars

NextRisk ==
    \/ CalculateRisk
    \/ GetPointValue

SpecRisk == InitRisk /\ [][NextRisk]_vars

\* ---- atr_processor.py: the ATR engine ---------------------------------------
\* Bar prices and True Ranges are whole points.  An ATR is a fixed-point number
\* of AtrScale-ths of a point; AtrScale is a power of 14 large enough that the
\* mean of 14 TRs and every Wilder step of a chain over MaxBars entries is
\* exact.  A timestamp is the position of the bar in the broker's series.
MaxBars == 20
MaxNewBars == 1

RECURSIVE Pow14(_)
Pow14(k) == IF k = 0 THEN 1 ELSE 14 * Pow14(k - 1)

AtrScale == Pow14(MaxBars - 13)

DefaultCandleSize == "1 day"

Max3(a, b, c) == IF a >= b /\ a >= c THEN a ELSE IF b >= c THEN b ELSE c

\* tr = max(high - low, |high - prev_close|, |low - prev_close|)
TrueRange_RangeOnly(high, low, prev_close) == high - low

TrueRange(high, low, prev_close) == Max3(high - low, Abs(high - prev_close), Abs(low - prev_close))

\* _calculate_true_ranges: prev_close of the first row is NaN, DataFrame.max
\* skips NaN, so the first row gets tr = high - low and dropna() keeps it
calculate_true_ranges(df) ==
    IF Len(df) < 2
    THEN << >>
    ELSE [i \in 1..Len(df) |->
            [date |-> df[i].date,
             tr |-> IF i = 1
                    THEN df[i].high - df[i].low
                    ELSE TrueRange(df[i].high, df[i].low, df[i - 1].close)]]

\* sorted(tr_history.items()): the (timestamp, tr) pairs in key order
sorted_items(d) ==
    LET rank == [k \in DOMAIN d |-> Cardinality({j \in DOMAIN d : j <= k})]
    IN  [i \in 1..Cardinality(DOMAIN d) |->
            LET ts == CHOOSE k \in DOMAIN d : rank[k] = i
            IN  [ts |-> ts, tr |-> d[ts]]]

RECURSIVE SumTr(_, _, _)
SumTr(items, from, to) == IF from > to THEN 0 ELSE items[from].tr + SumTr(items, from + 1, to)

\* sum / 14 of fourteen TRs, as an ATR
Mean14(tr_sum) == tr_sum * (AtrScale \div 14)

\* (prev_atr * 13 + tr_val) / 14; the division is done first on each term,
\* which is exact on the ATRs of a chain and keeps the product in 32 bits
WilderSmooth(prev_atr, tr_val) == 13 * (prev_atr \div 14) + tr_val * (AtrScale \div 14)

EmptyCandleState == [last_atr |-> None, tr_history |-> EmptyDict]

NeutralResult == [tr |-> None, atr |-> None, previous_atr |-> None]

InsufficientResult == [tr |-> 0, atr |-> None, previous_atr |-> 0]

\* the SMA of the first 14 TRs
InitialAtr_Last14(sorted_trs) == Mean14(SumTr(sorted_trs, Len(sorted_trs) - 14, Len(sorted_trs) - 1))

InitialAtr(sorted_trs) == Mean14(SumTr(sorted_trs, 1, 14))

\* the ATR series of sorted_trs at entry i >= 14: the SMA of the first 14 TRs
\* at entry 14, then one Wilder step per entry (the loop stops at the entry
\* before the current one)
RECURSIVE AtrChain(_, _)
AtrChain(sorted_trs, i) ==
    IF i = 14
    THEN InitialAtr(sorted_trs)
    ELSE WilderSmooth(AtrChain(sorted_trs, i - 1), sorted_trs[i].tr)

\* variant: a row is added to what its key held
merge_true_ranges_Accumulates(old_history, tr_df) ==
    LET fetched_dates == {tr_df[i].date : i \in DOMAIN tr_df}
    IN  [ts \in DOMAIN old_history \cup fetched_dates |->
            IF ts \in fetched_dates
            THEN DictGet(old_history, ts, 0) + (CHOOSE row \in {tr_df[i] : i \in DOMAIN tr_df} : row.date = ts).tr
            ELSE old_history[ts]]

\* _process_symbol, the merge loop: every row of tr_df is written under its own
\* timestamp, overwriting what the key held
merge_true_ranges(old_history, tr_df) ==
    LET fetched_dates == {tr_df[i].date : i \in DOMAIN tr_df}
    IN  [ts \in DOMAIN old_history \cup fetched_dates |->
            IF ts \in fetched_dates
            THEN (CHOOSE row \in {tr_df[i] : i \in DOMAIN tr_df} : row.date = ts).tr
            ELSE old_history[ts]]

\* _process_symbol, "ATR Calculation: Recalculate from History": the current
\* TR, the previous and the current ATR and the ATR series to put in the history
recalculate_from_history(sorted_trs) ==
    LET n == Len(sorted_trs)
        current_tr == IF n > 0 THEN sorted_trs[n].tr ELSE 0
        chain_atr == IF n >= 15 THEN AtrChain(sorted_trs, n - 1) ELSE None
        previous_atr ==
            IF chain_atr = None /\ n >= 15
            THEN Mean14(SumTr(sorted_trs, n - 14, n - 1))
            ELSE chain_atr
        current_atr ==
            IF previous_atr # None
            THEN WilderSmooth(previous_atr, current_tr)
            ELSE None
        atr_values ==
            IF n >= 15
            THEN [ts \in {sorted_trs[i].ts : i \in 14..n} |->
                    IF ts = sorted_trs[n].ts
                    THEN current_atr
                    ELSE AtrChain(sorted_trs, CHOOSE i \in 14..(n - 1) : sorted_trs[i].ts = ts)]
            ELSE EmptyDict
    IN  [tr |-> current_tr, atr |-> current_atr, previous_atr |-> previous_atr,
         atr_values |-> atr_values]

\* _process_symbol, "Update History" and the return value
store_and_return_DropsOthers(state, history, symbol, candle_size, tr_history, calc) ==
    [result |-> [tr |-> calc.tr, atr |-> calc.atr,
                 previous_atr |-> calc.previous_atr],
     atr_state |->
        symbol :> (candle_size :> [last_atr |-> calc.atr, tr_history |-> tr_history]),
     atr_history |->
        DictSet(history, symbol,
                DictSet(DictGet(history, symbol, EmptyDict), candle_size, calc.atr_values))]

store_and_return(state, history, symbol, candle_size, tr_history, calc) ==
    LET symbol_state == DictGet(state, symbol, EmptyDict)
        symbol_history == DictGet(history, symbol, EmptyDict)
        old_atrs == DictGet(symbol_history, candle_size, EmptyDict)
        new_atrs ==
            [ts \in DOMAIN old_atrs \cup DOMAIN calc.atr_values |->
                IF ts \in DOMAIN calc.atr_values
                THEN calc.atr_values[ts]
                ELSE old_atrs[ts]]
    IN  [result |-> [tr |-> calc.tr, atr |-> calc.atr,
                     previous_atr |-> calc.previous_atr],
         atr_state |->
            DictSet(state, symbol,
                    DictSet(symbol_state, candle_size,
                            [last_atr |-> calc.atr,
                             tr_history |-> tr_history])),
         atr_history |->
            DictSet(history, symbol,
                    DictSet(symbol_history, candle_size, new_atrs))]

recalculate_and_store(state, history, symbol, candle_size, tr_history) ==
    store_and_return(state, history, symbol, candle_size, tr_history, recalculate_from_history(sorted_items(tr_history)))

\* ---- the shapes a persisted dict can have -------------------------------------
\* a JSON value that is not an object (a number, a string, a list, null)
NotADict == [scalar |-> 0]

\* isinstance(v, dict), for a value stored under a symbol or under a candle size
IsDict(v) == "scalar" \notin DOMAIN v

\* the keys of the old layout, which kept one state directly under the symbol
LegacyKeys == {"last_atr", "tr_history"}

\* 'T' in k: of the keys of the model only a timestamp string contains a 'T'
TimestampKeys == {"2024-01-02T00:00:00"}

ContainsT(k) == k \in TimestampKeys

\* what the state access of _process_symbol (lines 222-228) raises on: a symbol
\* entry that is not a dict ('in' or the item assignment raises TypeError) or a
\* candle entry that is not a dict (.get raises AttributeError)
state_access_raises(state, symbol, candle_size) ==
    /\ symbol \in DOMAIN state
    /\ \/ ~IsDict(state[symbol])
       \/ /\ candle_size \in DOMAIN state[symbol]
          /\ ~IsDict(state[symbol][candle_size])

\* _process_symbol on the state and history dicts: the result record and the
\* dicts after the call.  raises: the request for the bars (or anything else
\* in the try block before the state is touched) raised an exception.
process_symbol(state, history, symbol, candle_size, fetched, raises) ==
    IF raises
    THEN [result |-> NeutralResult, atr_state |-> state, atr_history |-> history]
    ELSE IF Len(fetched) < 2
    THEN [result |-> InsufficientResult, atr_state |-> state, atr_history |-> history]
    ELSE IF state_access_raises(state, symbol, candle_size)
    THEN [result |-> NeutralResult, atr_state |-> state, atr_history |-> history]
    ELSE recalculate_and_store(state, history, symbol, candle_size, merge_true_ranges(DictGet(DictGet(state, symbol, EmptyDict), candle_size, EmptyCandleState).tr_history, calculate_true_ranges(fetched)))

\* ---- timestamps ---------------------------------------------------------------
\* A timestamp key is an integer, and keys are ordered as the isoformat strings
\* they stand for are.  A key below 0 is a string that is not a timestamp; a
\* key below OffsetBase is a naive timestamp, its instant counted in bar
\* intervals; a key from OffsetBase on is a timezone-aware timestamp: the wall
\* clock time first, then the UTC offset "+01:00" or "+02:00".
CorruptKey == 0 - 1

OffsetBase == 1000

UtcOffsets == {1, 2}

\* Timestamp.isoformat() of an aware timestamp: the wall clock is the instant
\* plus the offset, and the offset is written after it
isoformat(instant, utcoffset) == OffsetBase + 2 * (instant + utcoffset) + (utcoffset - 1)

\* datetime.fromisoformat(key): ok is FALSE where it raises ValueError
fromisoformat(key) ==
    IF key < 0
    THEN [ok |-> FALSE, aware |-> FALSE, instant |-> 0]
    ELSE IF key < OffsetBase
    THEN [ok |-> TRUE, aware |-> FALSE, instant |-> key]
    ELSE [ok |-> TRUE, aware |-> TRUE,
          instant |-> ((key - OffsetBase) \div 2) - (((key - OffsetBase) % 2) + 1)]

\* ---- _cleanup_history --------------------------------------------------------
\* timedelta(days=100) and timedelta(days=3), in bar intervals
TrRetention == 100
AtrRetention == 3

\* the entries that survive a cutoff: the key parses and is not older
prune_KeepsUnparsed(entries, cutoff) ==
    [ts \in {k \in DOMAIN entries : ~fromisoformat(k).ok \/ fromisoformat(k).instant >= cutoff} |-> entries[ts]]

prune(entries, cutoff) ==
    [ts \in {k \in DOMAIN entries : fromisoformat(k).ok /\ fromisoformat(k).instant >= cutoff} |-> entries[ts]]

\* the state of one symbol of the portfolio after the cleanup: a value of an
\* old or foreign shape is replaced by {}, timeframes other than the active
\* one are dropped, old TR entries are dropped
cleanup_symbol_state(symbol_state, target_size, tr_cutoff) ==
    IF ~IsDict(symbol_state)
    THEN EmptyDict
    ELSE IF DOMAIN symbol_state \cap LegacyKeys # {}
    THEN EmptyDict
    ELSE IF \E k \in DOMAIN symbol_state : ContainsT(k)
    THEN EmptyDict
    ELSE [size \in DOMAIN symbol_state \cap {target_size} |->
            [symbol_state[size] EXCEPT !.tr_history = prune(@, tr_cutoff)]]

\* line 106: symbol_candle_state.get raises AttributeError when the value kept
\* under the active candle size is not a dict; nothing catches it
cleanup_raises(state, current_symbols, active_candle_sizes) ==
    \E s \in DOMAIN state \cap current_symbols :
        /\ IsDict(state[s])
        /\ DOMAIN state[s] \cap LegacyKeys = {}
        /\ ~\E k \in DOMAIN state[s] : ContainsT(k)
        /\ active_candle_sizes[s] \in DOMAIN state[s]
        /\ ~IsDict(state[s][active_candle_sizes[s]])

cleanup_state(state, current_symbols, active_candle_sizes, tr_cutoff) ==
    [s \in DOMAIN state \cap current_symbols |->
        cleanup_symbol_state(state[s], active_candle_sizes[s], tr_cutoff)]

\* the history of one symbol after the cleanup.  The old layout kept floats
\* under timestamp keys: in the model a value is a float exactly when its key
\* is a timestamp string.
cleanup_symbol_history(symbol_history, target_size, atr_cutoff) ==
    IF \E k \in DOMAIN symbol_history : ContainsT(k)
    THEN EmptyDict
    ELSE [size \in DOMAIN symbol_history \cap {target_size} |->
            prune(symbol_history[size], atr_cutoff)]

cleanup_atr_history(history, current_symbols, active_candle_sizes, atr_cutoff) ==
    [s \in DOMAIN history \cap current_symbols |->
        cleanup_symbol_history(history[s], active_candle_sizes[s], atr_cutoff)]

\* ATRProcessor.run: every position of the list is processed, then the cleanup.
\* The tasks touch disjoint entries, so they are folded in list order.
\* the result of the first task joined with the results of the remaining ones
join_results(symbol, first, rest) ==
    [results |-> DictSet(rest.results, symbol, first.result),
     atr_state |-> rest.atr_state, atr_history |-> rest.atr_history]

RECURSIVE process_all(_, _, _, _, _, _)

process_rest_AbortOnFailure(symbol, first, positions, candle_settings, fetched, raising) ==
    join_results(symbol, first, process_all(first.atr_state, first.atr_history, positions, candle_settings, fetched, IF first.result = NeutralResult THEN raising \cup {positions[i] : i \in DOMAIN positions} ELSE raising))

process_rest(symbol, first, positions, candle_settings, fetched, raising) ==
    join_results(symbol, first, process_all(first.atr_state, first.atr_history, positions, candle_settings, fetched, raising))

process_all(state, history, positions, candle_settings, fetched, raising) ==
    IF positions = << >>
    THEN [results |-> EmptyDict, atr_state |-> state, atr_history |-> history]
    ELSE process_rest(Head(positions), process_symbol(state, history, Head(positions), DictGet(candle_settings, Head(positions), DefaultCandleSize), DictGet(fetched, Head(positions), << >>), Head(positions) \in raising), Tail(positions), candle_settings, fetched, raising)

\* _cleanup_history on the dicts the tasks left, at the time clock.  raised:
\* the cleanup raised, so that run() raises before anything is saved.
cleanup_history(done, current_symbols, active_candle_sizes, clock) ==
    IF cleanup_raises(done.atr_state, current_symbols, active_candle_sizes)
    THEN [results |-> done.results, atr_state |-> done.atr_state,
          atr_history |-> done.atr_history, raised |-> TRUE]
    ELSE [results |-> done.results,
          atr_state |-> cleanup_state(done.atr_state, current_symbols, active_candle_sizes, clock - TrRetention),
          atr_history |-> cleanup_atr_history(done.atr_history, current_symbols, active_candle_sizes, clock - AtrRetention),
          raised |-> FALSE]

run(state, history, enriched_positions, candle_settings, fetched, raising, clock) ==
    LET current_symbols == {enriched_positions[i] : i \in DOMAIN enriched_positions}
        active_candle_sizes ==
            [s \in current_symbols |->
                DictGet(candle_settings, s, DefaultCandleSize)]
    IN  cleanup_history(process_all(state, history, enriched_positions, candle_settings, fetched, raising), current_symbols, active_candle_sizes, clock)

\* ---- the bars the broker serves ---------------------------------------------
\* three bar shapes between the price levels 10 and 11: a bar closing at its
\* high, a bar closing at its low, and a flat bar at 10
BarShapes ==
    {[high |-> 11, low |-> 10, close |-> 11],
     [high |-> 11, low |-> 10, close |-> 10],
     [high |-> 10, low |-> 10, close |-> 10]}

Bar(date, shape) == [date |-> date, high |-> shape.high, low |-> shape.low, close |-> shape.close]

SeriesKinds == {"trend", "quiet", "mixed"}

SeriesShape(kind, i) ==
    IF kind = "trend" THEN [high |-> 11, low |-> 10, close |-> 11]
    ELSE IF kind = "quiet" THEN [high |-> 10, low |-> 10, close |-> 10]
    ELSE IF i % 4 = 0 THEN [high |-> 11, low |-> 10, close |-> 10]
    ELSE IF i % 4 = 1 THEN [high |-> 10, low |-> 10, close |-> 10]
    ELSE [high |-> 11, low |-> 10, close |-> 11]

Series(kind, n) == [i \in 1..n |-> Bar(i, SeriesShape(kind, i))]

\* what reqHistoricalDataAsync can return for a symbol: at the first request a
\* series of any length up to MaxBars; later the same bars, the same bars with
\* the in-progress last bar moved, one more bar, or no bars at all
Fetchable(symbol) ==
    IF symbol \notin DOMAIN bars
    THEN {Series(kind, n) : kind \in SeriesKinds, n \in 0..MaxBars}
    ELSE LET last == bars[symbol]
             n == Len(last)
         IN  {last, << >>}
             \cup {[last EXCEPT ![n] = Bar(n, shape)] : shape \in {b \in BarShapes : n >= 1}}
             \cup {Append(last, Bar(n + 1, shape)) : shape \in {b \in BarShapes : new_bars < MaxNewBars /\ n < MaxBars}}

MarketStatuses == {"ACTIVE (RTH)", "CLOSED"}

\* ATRWindow.get_candle_size
get_candle_size(settings, symbol) == DictGet(settings, symbol, DefaultCandleSize)

\* the state kept for (symbol, candle size), where there is one of the current
\* shape
candle_state(state, symbol, candle_size) ==
    IF /\ symbol \in DOMAIN state
       /\ IsDict(state[symbol])
       /\ candle_size \in DOMAIN state[symbol]
       /\ IsDict(state[symbol][candle_size])
    THEN state[symbol][candle_size]
    ELSE EmptyCandleState

\* what the caller of _process_symbol sees, with the engine's state before the
\* call; trs is the tr_history the ATR was computed from, in sorted order
AtrFrame(state_before, state_after, symbol, candle_size, status, fetched, raises, result, cleanup_raised) ==
    LET before == candle_state(state_before, symbol, candle_size)
        after == candle_state(state_after, symbol, candle_size)
        computed == ~raises /\ Len(fetched) >= 2 /\ ~state_access_raises(state_before, symbol, candle_size)
    IN  [op |-> "process_symbol", candle_size |-> candle_size,
         status |-> status, n_bars |-> Len(fetched), failed |-> raises,
         fresh |-> (symbol \notin DOMAIN state_before
                    \/ candle_size \notin DOMAIN state_before[symbol]),
         prior_last_atr |-> before.last_atr,
         n_trs |-> Cardinality(DOMAIN after.tr_history),
         tr |-> result.tr, atr |-> result.atr,
         previous_atr |-> result.previous_atr,
         computed |-> computed,
         trs_before |-> before.tr_history,
         trs |-> IF computed
                 THEN sorted_items(merge_true_ranges(before.tr_history, calculate_true_ranges(fetched)))
                 ELSE << >>,
         cleanup_raised |-> cleanup_raised]

\* the time of a cycle: the clock is never behind the newest bar served
Latest(clock, fetched, symbols) ==
    LET dates == {clock} \cup UNION {{fetched[s][i].date : i \in DOMAIN fetched[s]} : s \in symbols}
    IN  CHOOSE d \in dates : \A e \in dates : e <= d

\* the date of the newest bar of an answer, 0 for an empty one
NewestDate(answer) == IF answer = << >> THEN 0 ELSE answer[Len(answer)].date

\* one ATRProcessor.run of a refresh cycle on the portfolio: the bars are
\* requested per symbol, every symbol is processed, the dicts are cleaned up
\* and saved; when the cleanup raises nothing is saved
RunAtr(enriched_positions, fetched, raising, statuses) ==
    \E clock \in {Latest(now, fetched, {enriched_positions[i] : i \in DOMAIN enriched_positions} \ raising)} :
    \E r \in {run(atr_state, atr_history, enriched_positions, symbol_candle_size, fetched, raising, clock)} :
        LET symbols == {enriched_positions[i] : i \in DOMAIN enriched_positions}
        IN  /\ atr_state' = IF r.raised THEN atr_state ELSE r.atr_state
            /\ atr_history' = IF r.raised THEN atr_history ELSE r.atr_history
            /\ market_statuses' = statuses
            /\ bars' = [s \in DOMAIN bars \cup (symbols \ raising) |->
                          IF s \in symbols \ raising /\ (fetched[s] # << >> \/ s \notin DOMAIN bars)
                          THEN fetched[s]
                          ELSE bars[s]]
            /\ new_bars' = new_bars + Cardinality({s \in (symbols \ raising) \cap DOMAIN bars : NewestDate(fetched[s]) > NewestDate(bars[s])})
            /\ ar' = [s \in symbols |->
                        AtrFrame(atr_state, r.atr_state, s,
                                 get_candle_size(symbol_candle_size, s),
                                 statuses[s], fetched[s], s \in raising,
                                 r.results[s], r.raised)]
            /\ now' = clock
            /\ UNCHANGED <<symbol_candle_size, window_atr_state,
                           window_atr_history, updated_atr_state,
                           updated_atr_history>>
            /\ UNCHANGED calc_vars
            /\ UNCHANGED cycle_vars

\* ---- the engine on one symbol -----------------------------------------------
NextAtr ==
    \E fetched \in Fetchable("ES"), status \in MarketStatuses :
        \/ RunAtr(<<"ES">>, "ES" :> fetched, {}, "ES" :> status)
        \/ /\ fetched = DictGet(bars, "ES", << >>)
           /\ RunAtr(<<"ES">>, "ES" :> fetched, {"ES"}, "ES" :> status)

SpecAtr == Init /\ [][NextAtr]_vars

\* ---- _calculate_true_ranges called on a frame of two bars ---------------------
MaxPrice == 3

\* the bars a broker can serve: low <= close <= high
WellFormedBars(date) ==
    {b \in [date : {date}, high : 0..MaxPrice, low : 0..MaxPrice, close : 0..MaxPrice] :
        b.low <= b.close /\ b.close <= b.high}

InitTrueRange ==
    /\ highest_stop_losses = EmptyDict
    /\ cs = IdleFrame
    /\ cr = IdleRisk
    /\ positions_data = EmptyDict
    /\ InitCycle
    /\ new_bars = 0
    /\ market_statuses = EmptyDict
    /\ atr_state = EmptyDict
    /\ atr_history = EmptyDict
    /\ ar = EmptyDict
    /\ InitStore
    /\ \E first \in WellFormedBars(1), second \in WellFormedBars(2) :
          bars = ("ES" :> <<first, second>>)

CalculateTrueRanges ==
    /\ ar = EmptyDict
    /\ ar' = ("ES" :> [op |-> "calculate_true_ranges",
                       rows |-> calculate_true_ranges(bars["ES"])])
    /\ UNCHANGED <<bars, new_bars, market_statuses, atr_state, atr_history>>
    /\ UNCHANGED store_vars
    /\ UNCHANGED calc_vars
    /\ UNCHANGED cycle_vars

NextTrueRange == CalculateTrueRanges

SpecTrueRange == InitTrueRange /\ [][NextTrueRange]_vars



\* ---- main.py: the refresh cycle and the window's handlers -------------------
\* inputs a cycle fetches for one position; minTick comes from the contract
\* details and the ATR ratio is the window's default
CycleQuantities == {0 - 1, 0, 1}
CyclePrices == {103370}
CycleAtrValues == {None, 1000, 2000}
CycleMinTicks == {250}

\* orders.get_active_stop_symbols(ib): the symbols that have an active stop
\* order at the broker
get_active_stop_symbols == broker_stops

\* start_full_refresh / start_worker: skipped while a worker thread is running
StartWorker_NoGuard ==
    /\ worker_pc' = "reconcile"
    /\ UNCHANGED <<highest_stop_losses, cs, cr, positions_data,
                   symbol_stop_enabled, stop_history_file, broker_stops, order_vars, todo,
                   final_positions_data, ui_queue>>
    /\ UNCHANGED atr_vars

StartWorker ==
    /\ worker_pc = "idle"
    /\ worker_pc' = "reconcile"
    /\ UNCHANGED <<highest_stop_losses, cs, cr, positions_data,
                   symbol_stop_enabled, stop_history_file, broker_stops, order_vars, todo,
                   final_positions_data, ui_queue>>
    /\ UNCHANGED atr_vars

\* run_async up to the calculations: connect, drop every ratchet entry whose
\* symbol has no active stop at the broker, then fetch the positions
Reconcile(portfolio) ==
    /\ worker_pc = "reconcile"
    /\ LET active_stop_symbols == get_active_stop_symbols
           symbols_to_clear == DOMAIN highest_stop_losses \ active_stop_symbols
       IN  highest_stop_losses' =
              [s \in DOMAIN highest_stop_losses \ symbols_to_clear |->
                  highest_stop_losses[s]]
    /\ todo' = portfolio
    /\ final_positions_data' = EmptyDict
    /\ worker_pc' = "calc"
    /\ UNCHANGED <<cs, cr, positions_data, symbol_stop_enabled,
                   stop_history_file, broker_stops, order_vars, ui_queue>>
    /\ UNCHANGED atr_vars

\* process_positions, one position of the loop, on the shared ratchet store
ProcessNext(symbol, quantity, current_price, atr_value, min_tick) ==
    /\ worker_pc = "calc"
    /\ symbol \in todo
    /\ LET r == compute_stop_loss(highest_stop_losses, symbol, quantity,
                                  current_price, atr_value, DefaultAtrRatio,
                                  min_tick, TRUE)
       IN  /\ highest_stop_losses' = r.store
           /\ final_positions_data' =
                 DictSet(final_positions_data, symbol,
                         [positions_held |-> quantity,
                          computed_stop_loss |-> r.stop,
                          stop_status |-> r.status])
    /\ todo' = todo \ {symbol}
    /\ UNCHANGED <<cs, cr, positions_data, symbol_stop_enabled,
                   stop_history_file, broker_stops, order_vars, worker_pc, ui_queue>>
    /\ UNCHANGED atr_vars

\* build_stop_loss_data: the orders of the cycle, symbol -> stop price.  A
\* symbol is left out when it is individually disabled, when its stop is not
\* positive and when its stop is held.
build_stop_loss_data(processed_positions) ==
    [s \in {p \in DOMAIN processed_positions :
              /\ DictGet(symbol_stop_enabled, p, TRUE)
              /\ processed_positions[p].computed_stop_loss > 0
              /\ processed_positions[p].stop_status # "held"} |->
        processed_positions[s].computed_stop_loss]

\* market_statuses.get(symbol, '').startswith('ACTIVE'): the session in
\* regular hours and the session outside them
StartsWithActive(status) == status \in {"ACTIVE (RTH)", "ACTIVE (NT)"}

\* stage 4: nothing with submission switched off, else the orders of
\* build_stop_loss_data whose market status starts with ACTIVE
stage4_orders ==
    IF send_adaptive_stops
    THEN LET stop_loss_data == build_stop_loss_data(final_positions_data)
         IN  [s \in {o \in DOMAIN stop_loss_data : StartsWithActive(DictGet(market_statuses, o, ""))} |->
                stop_loss_data[s]]
    ELSE EmptyDict

\* what the broker does with the requests of one _submit_or_modify_single_order
BrokerOutcomes == {"placed", "cancel_pending", "rejected", "raises"}

\* _submit_or_modify_single_order on the live stop orders that carry the
\* symbol's orderRef: the first of them is the existing stop.  A stop at the
\* same price is left alone; otherwise the existing stop is cancelled, and
\* after the cancellation was confirmed or 2 seconds have passed the new stop
\* is placed.  outcome: the cancellation is confirmed and the order accepted
\* ("placed"), the cancellation is not confirmed in time ("cancel_pending"),
\* the new order is not accepted ("rejected"), qualifying the contract raises
\* ("raises").
submit_or_modify_single_order(live, stop_price, outcome) ==
    IF outcome = "raises"
    THEN [live |-> live, status |-> "error"]
    ELSE IF live # << >> /\ Head(live) = stop_price
    THEN [live |-> live, status |-> "unchanged"]
    ELSE LET remaining == IF live # << >> /\ outcome # "cancel_pending" THEN Tail(live) ELSE live
         IN  IF outcome = "rejected"
             THEN [live |-> remaining, status |-> "error"]
             ELSE [live |-> Append(remaining, stop_price), status |-> "submitted"]

\* process_stop_orders: one task per order; a task touches the orders of its
\* own orderRef only
process_stop_orders(orders, live_orders, outcomes) ==
    [s \in DOMAIN live_orders |->
        IF s \in DOMAIN orders
        THEN submit_or_modify_single_order(live_orders[s], orders[s], outcomes[s]).live
        ELSE live_orders[s]]

\* data_ready and stops_updated are emitted, then finished(True); stage 4
\* has no order to submit
EmitResults ==
    /\ worker_pc = "calc"
    /\ todo = {}
    /\ stage4_orders = EmptyDict
    /\ orders_to_submit' = EmptyDict
    /\ ui_queue' = ui_queue \o <<"data_ready", "stops_updated", "finished">>
    /\ worker_pc' = "done"
    /\ UNCHANGED <<highest_stop_losses, cs, cr, positions_data,
                   symbol_stop_enabled, stop_history_file, broker_stops,
                   send_adaptive_stops, open_orders, todo,
                   final_positions_data>>
    /\ UNCHANGED atr_vars

\* the same with orders to submit: data_ready and stops_updated are emitted,
\* process_stop_orders is awaited, then finished(True)
SubmitStopOrders(outcomes) ==
    /\ worker_pc = "calc"
    /\ todo = {}
    /\ stage4_orders # EmptyDict
    /\ orders_to_submit' = stage4_orders
    /\ open_orders' = process_stop_orders(stage4_orders, open_orders, outcomes)
    /\ broker_stops' = broker_stops \cup {s \in Symbols : open_orders'[s] # << >>}
    /\ ui_queue' = ui_queue \o <<"data_ready", "stops_updated", "finished">>
    /\ worker_pc' = "done"
    /\ UNCHANGED <<highest_stop_losses, cs, cr, positions_data,
                   symbol_stop_enabled, stop_history_file,
                   send_adaptive_stops, todo, final_positions_data>>
    /\ UNCHANGED atr_vars

\* on_adaptive_stop_toggled: the global switch
OnAdaptiveStopToggled(is_on) ==
    /\ send_adaptive_stops # is_on
    /\ send_adaptive_stops' = is_on
    /\ UNCHANGED <<highest_stop_losses, cs, cr, positions_data,
                   symbol_stop_enabled, stop_history_file, broker_stops,
                   open_orders, orders_to_submit, worker_pc, todo,
                   final_positions_data, ui_queue>>
    /\ UNCHANGED atr_vars

\* an exception in run_async (connection, fetch, calculation): error and
\* finished(False) are emitted, stops_updated is not
WorkerError ==
    /\ worker_pc \in {"reconcile", "calc"}
    /\ ui_queue' = ui_queue \o <<"error", "finished">>
    /\ worker_pc' = "done"
    /\ todo' = {}
    /\ UNCHANGED <<highest_stop_losses, cs, cr, positions_data,
                   symbol_stop_enabled, stop_history_file, broker_stops, order_vars,
                   final_positions_data>>
    /\ UNCHANGED atr_vars

\* handle_data_ready: with no positions the tables are emptied and nothing
\* else is done; otherwise the window takes the worker's ATR dicts
HandleDataReady ==
    /\ ui_queue # << >>
    /\ Head(ui_queue) = "data_ready"
    /\ ui_queue' = Tail(ui_queue)
    /\ IF DOMAIN final_positions_data = {}
       THEN UNCHANGED <<window_atr_state, window_atr_history>>
       ELSE /\ window_atr_state' = updated_atr_state
            /\ window_atr_history' = updated_atr_history
    /\ UNCHANGED <<highest_stop_losses, cs, cr, positions_data,
                   symbol_stop_enabled, stop_history_file, broker_stops, order_vars,
                   worker_pc, todo, final_positions_data>>
    /\ UNCHANGED <<bars, new_bars, market_statuses, atr_state, atr_history, ar,
                   now, symbol_candle_size, updated_atr_state,
                   updated_atr_history>>

\* handle_stops_updated: the window takes the worker's dict (the same object)
\* and saves it
HandleStopsUpdated ==
    /\ ui_queue # << >>
    /\ Head(ui_queue) = "stops_updated"
    /\ ui_queue' = Tail(ui_queue)
    /\ stop_history_file' = highest_stop_losses
    /\ UNCHANGED <<highest_stop_losses, cs, cr, positions_data,
                   symbol_stop_enabled, broker_stops, order_vars, worker_pc, todo,
                   final_positions_data>>
    /\ UNCHANGED atr_vars

\* handle_data_error: logs and shows the status
HandleDataError ==
    /\ ui_queue # << >>
    /\ Head(ui_queue) = "error"
    /\ ui_queue' = Tail(ui_queue)
    /\ UNCHANGED <<highest_stop_losses, cs, cr, positions_data,
                   symbol_stop_enabled, stop_history_file, broker_stops, order_vars,
                   worker_pc, todo, final_positions_data>>
    /\ UNCHANGED atr_vars

\* on_worker_finished / update_timestamp: the thread is shut down and dropped
OnWorkerFinished ==
    /\ ui_queue # << >>
    /\ Head(ui_queue) = "finished"
    /\ ui_queue' = Tail(ui_queue)
    /\ worker_pc' = "idle"
    /\ final_positions_data' = EmptyDict
    /\ UNCHANGED <<highest_stop_losses, cs, cr, positions_data,
                   symbol_stop_enabled, stop_history_file, broker_stops, order_vars, todo>>
    /\ UNCHANGED atr_vars

\* on_symbol_toggle_changed: disabling a symbol resets its ratchet and saves
OnSymbolToggleChanged(symbol, is_enabled) ==
    /\ symbol_stop_enabled' = [symbol_stop_enabled EXCEPT ![symbol] = is_enabled]
    /\ IF ~is_enabled /\ symbol \in DOMAIN highest_stop_losses
       THEN /\ highest_stop_losses' = DictDel(highest_stop_losses, symbol)
            /\ stop_history_file' = highest_stop_losses'
       ELSE UNCHANGED <<highest_stop_losses, stop_history_file>>
    /\ UNCHANGED <<cs, cr, positions_data, broker_stops, order_vars, worker_pc, todo,
                   final_positions_data, ui_queue>>
    /\ UNCHANGED atr_vars

\* the broker: a stop order is placed by hand, or the stop orders of the
\* symbol are filled or cancelled
BrokerStopsChange(symbol) ==
    /\ broker_stops' = IF symbol \in broker_stops
                       THEN broker_stops \ {symbol}
                       ELSE broker_stops \cup {symbol}
    /\ open_orders' = IF symbol \in broker_stops
                      THEN [open_orders EXCEPT ![symbol] = << >>]
                      ELSE open_orders
    /\ UNCHANGED <<highest_stop_losses, cs, cr, positions_data,
                   symbol_stop_enabled, stop_history_file,
                   send_adaptive_stops, orders_to_submit, worker_pc, todo,
                   final_positions_data, ui_queue>>
    /\ UNCHANGED atr_vars

Next ==
    \/ StartWorker
    \/ \E portfolio \in SUBSET Symbols : Reconcile(portfolio)
    \/ \E symbol \in Symbols, quantity \in CycleQuantities,
          current_price \in CyclePrices, atr_value \in CycleAtrValues,
          min_tick \in CycleMinTicks :
            ProcessNext(symbol, quantity, current_price, atr_value, min_tick)
    \/ EmitResults
    \/ WorkerError
    \/ HandleDataReady
    \/ HandleStopsUpdated
    \/ HandleDataError
    \/ OnWorkerFinished
    \/ \E symbol \in Symbols, is_enabled \in BOOLEAN :
            OnSymbolToggleChanged(symbol, is_enabled)
    \/ \E symbol \in Symbols : BrokerStopsChange(symbol)

Spec == Init /\ [][Next]_vars

\* ---- run_async, stage 3: the ATR run and process_positions on a batch -------
\* the position snapshot the cycle fetched for a symbol: a long ES and a short
\* XYZ at 11.000, minTick 0.25
BatchPortfolio == <<"ES", "XYZ">>

PositionSnapshot(symbol) ==
    [symbol |-> symbol,
     positions_held |-> IF symbol = "ES" THEN 1 ELSE 0 - 1,
     current_price |-> 11000, avg_cost |-> 10000, min_tick |-> 250,
     price_magnifier |-> 1, md_size_multiplier |-> None, multiplier |-> 100]

\* an ATR of the engine (AtrScale-ths of a point) as the calculator's number
\* of thousandths, rounded down
AtrToThousandths(atr) == IF atr = None THEN None ELSE atr \div (AtrScale \div 1000)

\* the p_data record of one position
assemble_position(p, atr_data, atr_ratio, r, k) ==
    [positions_held |-> p.positions_held, current_price |-> p.current_price,
     atr_value |-> atr_data.atr, atr_ratio |-> atr_ratio,
     previous_atr |-> atr_data.previous_atr, tr |-> atr_data.tr,
     computed_stop_loss |-> r.stop, stop_status |-> r.status,
     dollar_risk |-> k.risk_value, percent_risk |-> k.percent_risk,
     status |-> "Ready"]

\* process_positions, the body of the loop: the stop, then the risk of that stop
process_position(h, p, atr_data, atr_ratio, r) ==
    [store |-> r.store,
     p_data |-> assemble_position(p, atr_data, atr_ratio, r, calculate_risk(p.symbol, p.positions_held, p.current_price, p.avg_cost, p.price_magnifier, p.md_size_multiplier, p.multiplier, r.stop))]

RECURSIVE process_positions(_, _, _)

process_remaining(symbol, first, positions, atr_results) ==
    LET rest == process_positions(first.store, positions, atr_results)
    IN  [store |-> rest.store, data |-> DictSet(rest.data, symbol, first.p_data)]

\* process_positions on the ratchet store h: atr_map.get(symbol, {}) gives the
\* ATR result of the symbol, the ratio is the default of the window
process_positions(h, positions, atr_results) ==
    IF positions = << >>
    THEN [store |-> h, data |-> EmptyDict]
    ELSE process_remaining(Head(positions), process_position(h, PositionSnapshot(Head(positions)), DictGet(atr_results, Head(positions), NeutralResult), DefaultAtrRatio, compute_stop_loss(h, Head(positions), PositionSnapshot(Head(positions)).positions_held, PositionSnapshot(Head(positions)).current_price, AtrToThousandths(DictGet(atr_results, Head(positions), NeutralResult).atr), DefaultAtrRatio, PositionSnapshot(Head(positions)).min_tick, TRUE)), Tail(positions), atr_results)

\* the bars a request of the batch can return: at first 1 or 16 bars of the
\* mixed series, later the same bars with the last bar where it was or moved
BatchLengths == {1, 16}

BatchFetchable(symbol) ==
    IF symbol \notin DOMAIN bars
    THEN {Series("mixed", n) : n \in BatchLengths}
    ELSE {f \in Fetchable(symbol) : Len(f) = Len(bars[symbol])}

\* the positions of the cycle in the order the broker lists them
enriched_positions(symbols) == SelectSeq(BatchPortfolio, LAMBDA s : s \in symbols)

\* stage 3 for the whole portfolio: ATRProcessor.run, then process_positions.
\* When run() raises, run_async emits error and finished(False).
CalcStage(fetched, raising, statuses) ==
    /\ worker_pc = "calc"
    /\ todo # {}
    /\ \E clock \in {Latest(now, fetched, todo \ raising)} :
       \E r \in {run(atr_state, atr_history, enriched_positions(todo), symbol_candle_size, fetched, raising, clock)} :
       \E done \in {process_positions(highest_stop_losses, enriched_positions(todo), r.results)} :
            /\ now' = clock
            /\ market_statuses' = statuses
            /\ bars' = [s \in DOMAIN bars \cup (todo \ raising) |->
                          IF s \in todo \ raising THEN fetched[s] ELSE bars[s]]
            /\ new_bars' = new_bars + Cardinality({s \in (todo \ raising) \cap DOMAIN bars : NewestDate(fetched[s]) > NewestDate(bars[s])})
            /\ ar' = [s \in todo |->
                        AtrFrame(atr_state, r.atr_state, s,
                                 get_candle_size(symbol_candle_size, s),
                                 statuses[s], fetched[s], s \in raising,
                                 r.results[s], r.raised)]
            /\ IF r.raised
               THEN /\ ui_queue' = ui_queue \o <<"error", "finished">>
                    /\ worker_pc' = "done"
                    /\ UNCHANGED <<atr_state, atr_history, updated_atr_state,
                                   updated_atr_history, highest_stop_losses,
                                   final_positions_data>>
               ELSE /\ atr_state' = r.atr_state
                    /\ atr_history' = r.atr_history
                    /\ updated_atr_state' = r.atr_state
                    /\ updated_atr_history' = r.atr_history
                    /\ highest_stop_losses' = done.store
                    /\ final_positions_data' = done.data
                    /\ UNCHANGED <<worker_pc, ui_queue>>
    /\ todo' = {}
    /\ UNCHANGED <<cs, cr, positions_data, symbol_stop_enabled,
                   stop_history_file, broker_stops, order_vars>>
    /\ UNCHANGED <<symbol_candle_size, window_atr_state, window_atr_history>>

NextBatch ==
    \/ StartWorker
    \/ Reconcile({"ES", "XYZ"})
    \/ \E fetched_es \in BatchFetchable("ES"), fetched_xyz \in BatchFetchable("XYZ"), raising \in SUBSET {"ES", "XYZ"} :
          CalcStage("ES" :> fetched_es @@ "XYZ" :> fetched_xyz, raising, [s \in {"ES", "XYZ"} |-> "ACTIVE (RTH)"])
    \/ EmitResults
    \/ WorkerError
    \/ HandleDataReady
    \/ HandleStopsUpdated
    \/ HandleDataError
    \/ OnWorkerFinished

SpecBatch == Init /\ [][NextBatch]_vars

\* ---- the window's timeframe setting and the persisted ATR dicts --------------
\* on_candle_size_changed: the setting is stored; the symbol is deleted from
\* the window's state and history dicts, and a dict that held the symbol is
\* written to its file
OnCandleSizeChanged(symbol, new_size) ==
    /\ get_candle_size(symbol_candle_size, symbol) # new_size
    /\ symbol_candle_size' = DictSet(symbol_candle_size, symbol, new_size)
    /\ IF symbol \in DOMAIN window_atr_state
       THEN /\ window_atr_state' = DictDel(window_atr_state, symbol)
            /\ atr_state' = window_atr_state'
       ELSE UNCHANGED <<window_atr_state, atr_state>>
    /\ IF symbol \in DOMAIN window_atr_history
       THEN /\ window_atr_history' = DictDel(window_atr_history, symbol)
            /\ atr_history' = window_atr_history'
       ELSE UNCHANGED <<window_atr_history, atr_history>>
    /\ UNCHANGED <<bars, new_bars, market_statuses, ar, now, updated_atr_state,
                   updated_atr_history>>
    /\ UNCHANGED calc_vars
    /\ UNCHANGED cycle_vars

\* the portfolios of the cycles: both symbols, or ES alone after the XYZ
\* position was closed
StorePortfolios == {{"ES", "XYZ"}, {"ES"}}

CandleSizes == {"1 day", "1 hour"}

\* every request returns the same bars; the user changes the timeframe of ES,
\* the broker holds or drops a stop order for XYZ
StoreBars == Series("mixed", 16)

NextStore ==
    \/ StartWorker
    \/ \E portfolio \in StorePortfolios : Reconcile(portfolio)
    \/ CalcStage([s \in {"ES", "XYZ"} |-> StoreBars], {}, [s \in {"ES", "XYZ"} |-> "ACTIVE (RTH)"])
    \/ EmitResults
    \/ WorkerError
    \/ HandleDataReady
    \/ HandleStopsUpdated
    \/ HandleDataError
    \/ OnWorkerFinished
    \/ \E new_size \in CandleSizes : OnCandleSizeChanged("ES", new_size)
    \/ BrokerStopsChange("XYZ")

SpecStore == Init /\ [][NextStore]_vars

\* ---- the engine on persisted files of an older or a foreign shape ------------
\* what atr_state.json can hold for ES when the program starts: nothing, a
\* state of the current shape, the old layout with last_atr and tr_history
\* directly under the symbol, the old layout keyed by timestamps, a value that
\* is not an object, and a candle entry that is not an object (under the active
\* timeframe, under another one)
PersistedStates ==
    {EmptyDict,
     "ES" :> ("1 day" :> [last_atr |-> None, tr_history |-> (1 :> 1)]),
     "ES" :> [last_atr |-> 5, tr_history |-> (1 :> 1)],
     "ES" :> ("2024-01-02T00:00:00" :> NotADict),
     "ES" :> NotADict,
     "ES" :> ("1 day" :> NotADict),
     "ES" :> ("1 hour" :> NotADict)}

\* what atr_history.json can hold for ES: nothing, or the old layout with
\* floats under timestamps
PersistedHistories ==
    {EmptyDict, "ES" :> ("2024-01-02T00:00:00" :> NotADict)}

InitLegacy ==
    /\ highest_stop_losses = EmptyDict
    /\ cs = IdleFrame
    /\ cr = IdleRisk
    /\ positions_data = EmptyDict
    /\ InitCycle
    /\ bars = EmptyDict
    /\ new_bars = 0
    /\ market_statuses = EmptyDict
    /\ atr_state \in PersistedStates
    /\ atr_history \in PersistedHistories
    /\ ar = EmptyDict
    /\ InitStore

\* the bars of a request: at first 1 or 16 bars of a series, later the same
\* bars with the last bar where it was or moved
LegacyFetchable(symbol) ==
    IF symbol \notin DOMAIN bars
    THEN {Series(kind, n) : kind \in SeriesKinds, n \in BatchLengths}
    ELSE {f \in Fetchable(symbol) : Len(f) = Len(bars[symbol])}

NextLegacy ==
    \E fetched \in LegacyFetchable("ES"), status \in MarketStatuses :
        RunAtr(<<"ES">>, "ES" :> fetched, {}, "ES" :> status)

SpecLegacy == InitLegacy /\ [][NextLegacy]_vars

\* ---- retention: cycles at times far apart --------------------------------------
\* what the state file and the history file hold for ES when the run starts:
\* nothing, or an entry of day 1 and an entry whose key is not a timestamp
RetainedStates ==
    {EmptyDict,
     "ES" :> ("1 day" :> [last_atr |-> None, tr_history |-> (CorruptKey :> 1) @@ (1 :> 1)])}

RetainedHistories ==
    {EmptyDict, "ES" :> ("1 day" :> ((CorruptKey :> 0) @@ (1 :> 0)))}

InitRetention ==
    /\ highest_stop_losses = EmptyDict
    /\ cs = IdleFrame
    /\ cr = IdleRisk
    /\ positions_data = EmptyDict
    /\ InitCycle
    /\ bars = EmptyDict
    /\ new_bars = 0
    /\ market_statuses = EmptyDict
    /\ atr_state \in RetainedStates
    /\ atr_history \in RetainedHistories
    /\ ar = EmptyDict
    /\ InitStore

\* the times, in days, at which a refresh cycle can run: on two consecutive
\* days, and again more than TrRetention days later
CycleTimes == {16, 17, TrRetention + 16, TrRetention + 17, TrRetention + 20}

\* datetime.now() moves on to the time of the next cycle
ClockAdvance(t) ==
    /\ t > now
    /\ now' = t
    /\ UNCHANGED <<symbol_candle_size, window_atr_state, window_atr_history,
                   updated_atr_state, updated_atr_history>>
    /\ UNCHANGED <<bars, new_bars, market_statuses, atr_state, atr_history, ar>>
    /\ UNCHANGED calc_vars
    /\ UNCHANGED cycle_vars

\* the daily bar of a date: two flat bars at 10, then two bars that range from
\* 10 to 11 and close at 11
DailyShape(date) ==
    IF date % 4 \in {0, 1}
    THEN [high |-> 10, low |-> 10, close |-> 10]
    ELSE [high |-> 11, low |-> 10, close |-> 11]

\* the n daily bars up to the date last
DailyBars(last, n) == [i \in 1..n |-> Bar(last - n + i, DailyShape(last - n + i))]

WindowLengths == {0, 2, 16}

\* reqHistoricalDataAsync at the time now: the bars of the window that ends
\* now, as many as traded in it
RetentionFetchable == {DailyBars(now, n) : n \in {k \in WindowLengths : k <= now}}

\* a cycle on ES; the model follows the engine while its tr_history stays
\* within MaxBars entries
NextRetention ==
    \/ \E t \in CycleTimes : ClockAdvance(t)
    \/ \E fetched \in RetentionFetchable :
        /\ Cardinality(DOMAIN candle_state(atr_state, "ES", DefaultCandleSize).tr_history
                       \cup {fetched[i].date : i \in DOMAIN fetched}) <= MaxBars
        /\ RunAtr(<<"ES">>, "ES" :> fetched, {}, "ES" :> "ACTIVE (RTH)")

SpecRetention == InitRetention /\ [][NextRetention]_vars

\* ---- the order of the TR history ------------------------------------------------
\* the hours a bar of the history can belong to
MaxInstant == 4

\* the keys of the bar of an hour: it was stamped with either UTC offset
HourKeys(instant) == {isoformat(instant, utcoffset) : utcoffset \in UtcOffsets}

\* the tr_history dicts of hourly bars: at most one bar per hour, every TR 0 or 1
RECURSIVE HourlyHistories(_)
HourlyHistories(instant) ==
    IF instant = 0
    THEN {EmptyDict}
    ELSE LET rest == HourlyHistories(instant - 1)
         IN  rest \cup {h @@ (k :> tr) : h \in rest, k \in HourKeys(instant), tr \in {0, 1}}

InitSort ==
    /\ highest_stop_losses = EmptyDict
    /\ cs = IdleFrame
    /\ cr = IdleRisk
    /\ positions_data = EmptyDict
    /\ InitCycle
    /\ bars = EmptyDict
    /\ new_bars = 0
    /\ market_statuses = EmptyDict
    /\ \E h \in HourlyHistories(MaxInstant) :
          atr_state = ("ES" :> ("1 hour" :> [last_atr |-> None, tr_history |-> h]))
    /\ atr_history = EmptyDict
    /\ ar = EmptyDict
    /\ InitStore

\* _process_symbol from "Recalculate from History" on, applied to the stored
\* tr_history: the entries in the order of the computation and its current TR
SortHistory ==
    /\ ar = EmptyDict
    /\ \E trs \in {sorted_items(atr_state["ES"]["1 hour"].tr_history)} :
          ar' = ("ES" :> [op |-> "sorted_trs", trs |-> trs,
                          tr |-> recalculate_from_history(trs).tr])
    /\ UNCHANGED <<bars, new_bars, market_statuses, atr_state, atr_history>>
    /\ UNCHANGED store_vars
    /\ UNCHANGED calc_vars
    /\ UNCHANGED cycle_vars

NextSort == SortHistory

SpecSort == InitSort /\ [][NextSort]_vars

\* ---- ATRProcessor.run task by task ------------------------------------------------
\* a task of the gather that has not got its bars yet
PendingFrame(candle_size) == [op |-> "pending", candle_size |-> candle_size]

\* stage 3 up to the gather: a new ATRProcessor loads both files, the candle
\* settings are read, and one task per position is created with the candle
\* size of its symbol
GatherStart ==
    /\ worker_pc = "calc"
    /\ todo # {}
    /\ worker_pc' = "gather"
    /\ updated_atr_state' = atr_state
    /\ updated_atr_history' = atr_history
    /\ market_statuses' = [s \in todo |-> "ACTIVE (RTH)"]
    /\ ar' = [s \in todo |-> PendingFrame(get_candle_size(symbol_candle_size, s))]
    /\ UNCHANGED <<bars, new_bars, atr_state, atr_history, now,
                   symbol_candle_size, window_atr_state, window_atr_history>>
    /\ UNCHANGED calc_vars
    /\ UNCHANGED <<symbol_stop_enabled, stop_history_file, broker_stops, order_vars, todo,
                   final_positions_data, ui_queue>>

\* one task of the gather gets its answer and runs to its end: from the
\* answer on _process_symbol does not await, so the rest of it is one step on
\* the processor's dicts
TaskFinishes(symbol, fetched, raises) ==
    /\ worker_pc = "gather"
    /\ symbol \in todo
    /\ \E p \in {process_symbol(updated_atr_state, updated_atr_history, symbol, ar[symbol].candle_size, fetched, raises)} :
          /\ updated_atr_state' = p.atr_state
          /\ updated_atr_history' = p.atr_history
          /\ ar' = [ar EXCEPT ![symbol] =
                      AtrFrame(updated_atr_state, p.atr_state, symbol,
                               ar[symbol].candle_size, market_statuses[symbol],
                               fetched, raises, p.result, FALSE)]
    /\ bars' = IF raises THEN bars ELSE DictSet(bars, symbol, fetched)
    /\ new_bars' = new_bars + (IF ~raises /\ symbol \in DOMAIN bars /\ NewestDate(fetched) > NewestDate(bars[symbol]) THEN 1 ELSE 0)
    /\ todo' = todo \ {symbol}
    /\ UNCHANGED <<market_statuses, atr_state, atr_history, now,
                   symbol_candle_size, window_atr_state, window_atr_history>>
    /\ UNCHANGED calc_vars
    /\ UNCHANGED <<symbol_stop_enabled, stop_history_file, broker_stops, order_vars,
                   worker_pc, final_positions_data, ui_queue>>

\* the results list of the gather
gathered_results == [s \in DOMAIN ar |-> [tr |-> ar[s].tr, atr |-> ar[s].atr, previous_atr |-> ar[s].previous_atr]]

\* the gather returned: _cleanup_history, then both dicts are saved; when the
\* cleanup raises, run_async emits error and finished(False)
GatherDone ==
    /\ worker_pc = "gather"
    /\ todo = {}
    /\ \E clock \in {Latest(now, bars, {s \in DOMAIN ar : ~ar[s].failed})} :
       \E r \in {cleanup_history([results |-> gathered_results, atr_state |-> updated_atr_state, atr_history |-> updated_atr_history],
                                 DOMAIN ar, [s \in DOMAIN ar |-> ar[s].candle_size], clock)} :
          /\ now' = clock
          /\ IF r.raised
             THEN /\ ui_queue' = ui_queue \o <<"error", "finished">>
                  /\ worker_pc' = "done"
                  /\ UNCHANGED <<atr_state, atr_history, updated_atr_state,
                                 updated_atr_history, todo>>
             ELSE /\ atr_state' = r.atr_state
                  /\ atr_history' = r.atr_history
                  /\ updated_atr_state' = r.atr_state
                  /\ updated_atr_history' = r.atr_history
                  /\ worker_pc' = "positions"
                  /\ todo' = DOMAIN ar
                  /\ UNCHANGED ui_queue
    /\ UNCHANGED <<bars, new_bars, market_statuses, ar, symbol_candle_size,
                   window_atr_state, window_atr_history>>
    /\ UNCHANGED calc_vars
    /\ UNCHANGED <<symbol_stop_enabled, stop_history_file, broker_stops, order_vars,
                   final_positions_data>>

\* process_positions, one pass of its loop: the next position of the list
ProcessNextPosition ==
    /\ worker_pc = "positions"
    /\ todo # {}
    /\ \E symbol \in {Head(enriched_positions(todo))} :
       \E r \in {compute_stop_loss(highest_stop_losses, symbol, PositionSnapshot(symbol).positions_held, PositionSnapshot(symbol).current_price, AtrToThousandths(ar[symbol].atr), DefaultAtrRatio, PositionSnapshot(symbol).min_tick, TRUE)} :
          /\ highest_stop_losses' = r.store
          /\ final_positions_data' =
                DictSet(final_positions_data, symbol,
                        process_position(highest_stop_losses, PositionSnapshot(symbol), gathered_results[symbol], DefaultAtrRatio, r).p_data)
          /\ todo' = todo \ {symbol}
          /\ worker_pc' = IF todo' = {} THEN "calc" ELSE "positions"
    /\ UNCHANGED <<cs, cr, positions_data, symbol_stop_enabled,
                   stop_history_file, broker_stops, order_vars, ui_queue>>
    /\ UNCHANGED atr_vars

\* a cycle on the batch with its tasks finishing in any order; a task is
\* answered as BatchFetchable says, or its request raises
NextGather ==
    \/ StartWorker
    \/ Reconcile({"ES", "XYZ"})
    \/ GatherStart
    \/ \E symbol \in {"ES", "XYZ"} :
          \/ \E fetched \in BatchFetchable(symbol) : TaskFinishes(symbol, fetched, FALSE)
          \/ TaskFinishes(symbol, << >>, TRUE)
    \/ GatherDone
    \/ ProcessNextPosition
    \/ EmitResults
    \/ HandleDataReady
    \/ HandleStopsUpdated
    \/ OnWorkerFinished

SpecGather == Init /\ [][NextGather]_vars

\* the same while the user changes the timeframe of ES at any moment
NextRace ==
    \/ NextGather
    \/ \E new_size \in CandleSizes : OnCandleSizeChanged("ES", new_size)

SpecRace == Init /\ [][NextRace]_vars

\* ---- run_async, stage 4: the stop orders of a cycle --------------------------
\* the session status get_market_statuses_for_all reports for a symbol:
\* regular hours, extended hours, closed, unknown
SessionStatuses == {"ACTIVE (RTH)", "ACTIVE (NT)", "CLOSED", "UNKNOWN"}

\* the portfolio of the cycles: one long ES at 103.370, minTick 0.25, whose
\* ATR is 1.000 or 2.000
OrderPortfolio == {"ES"}
OrderAtrValues == {1000, 2000}

\* live stop orders one orderRef may accumulate
MaxLiveOrders == 3

\* run_async up to the calculations, with the session statuses of stage 3
ReconcileWithStatuses(portfolio, statuses) ==
    /\ worker_pc = "reconcile"
    /\ LET active_stop_symbols == get_active_stop_symbols
           symbols_to_clear == DOMAIN highest_stop_losses \ active_stop_symbols
       IN  highest_stop_losses' =
              [s \in DOMAIN highest_stop_losses \ symbols_to_clear |->
                  highest_stop_losses[s]]
    /\ todo' = portfolio
    /\ final_positions_data' = EmptyDict
    /\ market_statuses' = statuses
    /\ worker_pc' = "calc"
    /\ UNCHANGED <<cs, cr, positions_data, symbol_stop_enabled,
                   stop_history_file, broker_stops, order_vars, ui_queue>>
    /\ UNCHANGED <<bars, new_bars, atr_state, atr_history, ar, now,
                   symbol_candle_size, updated_atr_state, updated_atr_history,
                   window_atr_state, window_atr_history>>

\* the worker thread: the stages of run_async in turn
OrderWorkerStep ==
    \/ \E statuses \in [OrderPortfolio -> SessionStatuses] :
            ReconcileWithStatuses(OrderPortfolio, statuses)
    \/ \E symbol \in OrderPortfolio, atr_value \in OrderAtrValues :
            ProcessNext(symbol, 1, 103370, atr_value, 250)
    \/ EmitResults
    \/ \E outcomes \in [OrderPortfolio -> BrokerOutcomes] :
            /\ SubmitStopOrders(outcomes)
            /\ \A s \in Symbols : Len(open_orders'[s]) <= MaxLiveOrders

\* the window's slots for the signals of the worker
OrderSignalStep ==
    \/ HandleDataReady
    \/ HandleStopsUpdated
    \/ OnWorkerFinished

NextOrders ==
    \/ StartWorker
    \/ OrderWorkerStep
    \/ OrderSignalStep
    \/ \E symbol \in OrderPortfolio, is_enabled \in BOOLEAN :
            OnSymbolToggleChanged(symbol, is_enabled)
    \/ \E is_on \in BOOLEAN : OnAdaptiveStopToggled(is_on)
    \/ \E symbol \in OrderPortfolio : BrokerStopsChange(symbol)

SpecOrders == Init /\ [][NextOrders]_vars

\* the refresh timer keeps firing, a started run_async runs to its end and
\* the event loop of the window delivers every queued signal
FairOrders ==
    /\ SpecOrders
    /\ WF_vars(StartWorker)
    /\ WF_vars(OrderWorkerStep)
    /\ WF_vars(OrderSignalStep)

\* ---- calculator.py: calculate_tr_and_atr ---------------------------------------
\* ATR values of this function are in 196ths of a point, so that one
\* smoothing step of a whole-point prior ATR is exact; TR is in points
TrAtrScale == 196

\* the prior ATR handed in: none, 0.0 or 1.0
PriorAtrs == {None, 0, TrAtrScale}

\* what the call util.ATR(high, low, close, 14) does: it raises, it returns
\* None, it returns an empty series, or it returns a series
FallbackOutcomes == {"raises", "missing", "empty", "series"}

\* the last value of the series util.ATR returns
FallbackAtr == TrAtrScale

\* an exception leaves calculate_tr_and_atr
TrAtrRaised == [raised |-> TRUE, tr |-> 0, atr |-> None]

\* calculate_tr_and_atr(df, prior_atr, symbol) with the symbol's session
\* status.  The log line of the TR-is-0 branch formats prior_atr with .4f, and
\* after a fallback that returned no series the smoothing is computed from
\* prior_atr: both raise TypeError on None.
calculate_tr_and_atr(df, prior_atr, status, fallback) ==
    IF Len(df) < 2
    THEN [raised |-> FALSE, tr |-> 0, atr |-> None]
    ELSE IF status = "CLOSED"
    THEN [raised |-> FALSE, tr |-> 0, atr |-> prior_atr]
    ELSE LET current_tr == TrueRange(df[Len(df)].high, df[Len(df)].low, df[Len(df) - 1].close)
         IN  IF current_tr = 0
             THEN IF prior_atr = None
                  THEN TrAtrRaised
                  ELSE [raised |-> FALSE, tr |-> current_tr, atr |-> prior_atr]
             ELSE IF prior_atr = None
             THEN IF fallback = "series"
                  THEN [raised |-> FALSE, tr |-> current_tr, atr |-> FallbackAtr]
                  ELSE IF fallback = "raises"
                  THEN [raised |-> FALSE, tr |-> current_tr, atr |-> None]
                  ELSE TrAtrRaised
             ELSE [raised |-> FALSE, tr |-> current_tr,
                   atr |-> (prior_atr * 13 + current_tr * TrAtrScale) \div 14]

\* the frames handed in: no bar, one bar, two bars
InitTrAtr ==
    /\ highest_stop_losses = EmptyDict
    /\ cs = IdleFrame
    /\ cr = IdleRisk
    /\ positions_data = EmptyDict
    /\ InitCycle
    /\ new_bars = 0
    /\ market_statuses = EmptyDict
    /\ atr_state = EmptyDict
    /\ atr_history = EmptyDict
    /\ ar = EmptyDict
    /\ InitStore
    /\ \/ bars = ("ES" :> << >>)
       \/ \E first \in WellFormedBars(1) : bars = ("ES" :> <<first>>)
       \/ \E first \in WellFormedBars(1), second \in WellFormedBars(2) :
             bars = ("ES" :> <<first, second>>)

CalculateTrAndAtr(prior_atr, status, fallback) ==
    /\ ar = EmptyDict
    /\ market_statuses' = ("ES" :> status)
    /\ \E r \in {calculate_tr_and_atr(bars["ES"], prior_atr, status, fallback)} :
          ar' = ("ES" :> [op |-> "calculate_tr_and_atr", prior_atr |-> prior_atr,
                          fallback |-> fallback, raised |-> r.raised,
                          tr |-> r.tr, atr |-> r.atr])
    /\ UNCHANGED <<bars, new_bars, atr_state, atr_history>>
    /\ UNCHANGED store_vars
    /\ UNCHANGED calc_vars
    /\ UNCHANGED cycle_vars

NextTrAtr ==
    \E prior_atr \in PriorAtrs, status \in MarketStatuses, fallback \in FallbackOutcomes :
        CalculateTrAndAtr(prior_atr, status, fallback)

SpecTrAtr == InitTrAtr /\ [][NextTrAtr]_vars

\* ==== claims =================================================================

CalledStop(f) == f.op = "compute_stop_loss"

\* --- C1 ---------------------------------------------------------------------
\* C1 as stated: over consecutive ratcheted computations for one symbol, the
\* returned stop never decreases while the position stays long and never
\* increases while it stays short, whatever the inputs.
C1_Original ==
    [][\A s \in DOMAIN positions_data \cap DOMAIN positions_data' :
          LET p == positions_data[s]
              q == positions_data'[s]
          IN  /\ (p.positions_held > 0 /\ q.positions_held > 0)
                    => q.computed_stop_loss >= p.computed_stop_loss
              /\ (p.positions_held < 0 /\ q.positions_held < 0)
                    => q.computed_stop_loss <= p.computed_stop_loss]_vars

\* C1 amended: the returned stop never decreases while the position stays
\* long; while it stays short it never increases once the symbol has a ratchet
\* entry (before that, a call with a null ATR or a price <= 0 returns 0).
C1_RatchetMonotone ==
    [][\A s \in DOMAIN positions_data \cap DOMAIN positions_data' :
          LET p == positions_data[s]
              q == positions_data'[s]
          IN  /\ (p.positions_held > 0 /\ q.positions_held > 0)
                    => q.computed_stop_loss >= p.computed_stop_loss
              /\ (p.positions_held < 0 /\ q.positions_held < 0
                  /\ s \in DOMAIN highest_stop_losses)
                    => q.computed_stop_loss <= p.computed_stop_loss]_vars

\* a short whose freshly computed stop was worse and was held back
C1_Witness ==
    /\ CalledStop(cs) /\ cs.quantity < 0 /\ cs.computed /\ cs.had_entry
    /\ cs.final_stop > cs.stored
    /\ cs.symbol \in DOMAIN positions_data
    /\ positions_data[cs.symbol].positions_held < 0
    /\ positions_data[cs.symbol].computed_stop_loss = cs.stored

\* --- C2 ---------------------------------------------------------------------
\* C2: a ratcheted call on a symbol that has a stored value replaces the value
\* and returns (final_stop, 'new') exactly when final_stop is strictly better
\* (greater for a long, smaller for a short); otherwise, equality included,
\* the store is unchanged and (stored value, 'held') is returned.
C2_StrictImprovementOnly ==
    [][LET f == cs'
       IN  (CalledStop(f) /\ f.apply_ratchet /\ f.quantity # 0
            /\ f.symbol \in DOMAIN highest_stop_losses)
           => IF f.computed
                 /\ (IF f.quantity > 0
                     THEN f.final_stop > highest_stop_losses[f.symbol]
                     ELSE f.final_stop < highest_stop_losses[f.symbol])
              THEN /\ f.stop = f.final_stop
                   /\ f.status = "new"
                   /\ highest_stop_losses' =
                         DictSet(highest_stop_losses, f.symbol, f.final_stop)
              ELSE /\ f.stop = highest_stop_losses[f.symbol]
                   /\ f.status = "held"
                   /\ highest_stop_losses' = highest_stop_losses]_vars

\* a long whose computed stop equals the stored value and is held
C2_Witness ==
    /\ CalledStop(cs) /\ cs.apply_ratchet /\ cs.had_entry /\ cs.computed
    /\ cs.quantity > 0
    /\ cs.final_stop = cs.stored
    /\ cs.status = "held"

\* --- C3 ---------------------------------------------------------------------
\* C3: the first ratcheted call with valid data for a symbol without an entry
\* stores final_stop and returns (final_stop, 'new'), for every final_stop,
\* long or short.
C3_FirstCallStoresBaseline ==
    (CalledStop(cs) /\ cs.apply_ratchet /\ cs.computed /\ ~cs.had_entry
     /\ cs.quantity # 0)
    => /\ cs.stop = cs.final_stop
       /\ cs.status = "new"
       /\ cs.symbol \in DOMAIN highest_stop_losses
       /\ highest_stop_losses[cs.symbol] = cs.final_stop

\* --- C4 ---------------------------------------------------------------------
\* C4: over refresh cycles and user events, a symbol's ratchet entry changes
\* value only by being set to a strictly improved stop of its position
\* (higher for a long, lower for a short), and it is removed only when the
\* user disables the symbol or when reconciliation finds no active stop order
\* for the symbol at the broker.
C4_RatchetEntryLifecycle ==
    [][\A s \in Symbols :
          /\ (s \in DOMAIN highest_stop_losses
              /\ s \in DOMAIN highest_stop_losses'
              /\ highest_stop_losses'[s] # highest_stop_losses[s])
             => /\ s \in DOMAIN final_positions_data'
                /\ LET q == final_positions_data'[s].positions_held
                   IN  \/ q > 0 /\ highest_stop_losses'[s]
                                     > highest_stop_losses[s]
                       \/ q < 0 /\ highest_stop_losses'[s]
                                     < highest_stop_losses[s]
          /\ (s \in DOMAIN highest_stop_losses
              /\ s \notin DOMAIN highest_stop_losses')
             => \/ OnSymbolToggleChanged(s, FALSE)
                \/ /\ \E portfolio \in SUBSET Symbols : Reconcile(portfolio)
                   /\ s \notin broker_stops]_vars

\* --- C5 ---------------------------------------------------------------------
\* C5: the raw stop is price - atr*ratio for a long and price + atr*ratio for
\* a short, so a long's raw stop is below the price and a short's above it.
C5_RawStopBySide ==
    (CalledStop(cs) /\ cs.computed)
    => /\ cs.quantity > 0
          => cs.raw_stop = cs.current_price
                             - ((cs.atr_value * cs.atr_ratio) \div 10)
       /\ cs.quantity < 0
          => cs.raw_stop = cs.current_price
                             + ((cs.atr_value * cs.atr_ratio) \div 10)

\* --- C6 ---------------------------------------------------------------------
\* C6: with minTick > 0 and quantity != 0 the rounded stop is the multiple of
\* minTick next to the raw stop away from the market: the largest multiple
\* <= raw stop for a long, the smallest multiple >= raw stop for a short.
C6_TickRoundsAwayFromMarket ==
    (CalledStop(cs) /\ cs.computed /\ cs.min_tick > 0 /\ cs.quantity # 0)
    => /\ cs.final_stop % cs.min_tick = 0
       /\ cs.quantity > 0
          => /\ cs.final_stop <= cs.raw_stop
             /\ cs.raw_stop < cs.final_stop + cs.min_tick
       /\ cs.quantity < 0
          => /\ cs.final_stop >= cs.raw_stop
             /\ cs.raw_stop > cs.final_stop - cs.min_tick

\* --- C7 ---------------------------------------------------------------------
\* C7: with a null ATR or a price <= 0 the call returns the stored ratchet
\* value of the symbol (0 if none) with 'held' and leaves the store unchanged.
C7_NoDataHolds ==
    [][LET f == cs'
       IN  (CalledStop(f) /\ (f.atr_value = None \/ f.current_price <= 0))
           => /\ f.stop = DictGet(highest_stop_losses, f.symbol, 0)
              /\ f.status = "held"
              /\ highest_stop_losses' = highest_stop_losses]_vars

\* a call without ATR on a symbol that has a stored value, which is returned
C7_Witness ==
    /\ CalledStop(cs) /\ cs.atr_value = None /\ cs.current_price > 0
    /\ cs.had_entry /\ cs.stored # 0
    /\ cs.stop = cs.stored /\ cs.status = "held"

\* --- C8 ---------------------------------------------------------------------
\* the stop a call computes from its arguments alone
FreshStop(f) ==
    LET raw == f.current_price - ((f.atr_value * f.atr_ratio) \div 10)
    IN  IF f.min_tick > 0 /\ f.quantity # 0
        THEN (IF raw >= 0 THEN raw \div f.min_tick
                          ELSE 0 - ((0 - raw) \div f.min_tick)) * f.min_tick
        ELSE raw

\* C8 as stated: every call with apply_ratchet = false returns the freshly
\* computed, tick-rounded stop with 'new', independent of the store, and
\* leaves the store unchanged.
C8_Original ==
    [][LET f == cs'
       IN  (CalledStop(f) /\ ~f.apply_ratchet)
           => /\ f.status = "new"
              /\ f.computed
              /\ f.stop = FreshStop(f)
              /\ highest_stop_losses' = highest_stop_losses]_vars

\* C8 amended: a call with apply_ratchet = false, a non-null ATR and a price
\* > 0 returns the freshly computed stop (tick-rounded when minTick > 0 and
\* quantity != 0) with 'new', a value fixed by the arguments alone; every
\* call with apply_ratchet = false leaves the store unchanged.
C8_WhatIfIgnoresRatchet ==
    [][LET f == cs'
       IN  (CalledStop(f) /\ ~f.apply_ratchet)
           => /\ highest_stop_losses' = highest_stop_losses
              /\ (f.atr_value # None /\ f.current_price > 0)
                 => /\ f.status = "new"
                    /\ f.stop = FreshStop(f)]_vars

\* a what-if call whose fresh stop is worse than the stored long ratchet value
C8_Witness ==
    /\ CalledStop(cs) /\ ~cs.apply_ratchet /\ cs.computed /\ cs.had_entry
    /\ cs.quantity > 0
    /\ cs.final_stop < cs.stored
    /\ cs.stop = cs.final_stop
    /\ cs.min_tick > 0

\* --- C9 ---------------------------------------------------------------------
\* C9: a flat position (quantity = 0) with valid ATR and price gets stop 0.0
\* with 'held' and no ratchet entry is recorded for it.
C9_FlatHeldAtZero ==
    (CalledStop(cs) /\ cs.apply_ratchet /\ cs.computed /\ cs.quantity = 0)
    => /\ cs.stop = 0
       /\ cs.status = "held"
       /\ ~cs.had_entry => cs.symbol \notin DOMAIN highest_stop_losses

\* --- C10 --------------------------------------------------------------------
\* C10: calculate_risk returns ("NO RISK", 0.0) for a long whose stop is at or
\* above the average cost and for a short whose stop is at or below it.
C10_NoRiskAtBreakeven ==
    (cr.op = "calculate_risk" /\ cr.computed_stop > 0 /\ cr.avg_cost > 0
     /\ cr.current_price > 0
     /\ \/ cr.positions_held > 0 /\ cr.computed_stop >= cr.avg_cost
        \/ cr.positions_held < 0 /\ cr.computed_stop <= cr.avg_cost)
    => /\ cr.kind = "NO RISK"
       /\ cr.percent_risk.num = 0

\* --- C11 --------------------------------------------------------------------
\* C11: when calculate_risk returns a number, that number is
\* |current_price - computed_stop| * point_value * |quantity|, and a number is
\* returned only if computed_stop is not null, the average cost is positive and
\* the quantity is not zero.
C11_NumericRiskFormula ==
    (cr.op = "calculate_risk" /\ cr.kind = "number")
    => /\ cr.computed_stop # None
       /\ cr.avg_cost > 0
       /\ cr.positions_held # 0
       /\ cr.risk_value =
            Abs(cr.current_price - cr.computed_stop)
            * get_point_value(cr.symbol, cr.price_magnifier,
                              cr.md_size_multiplier, cr.multiplier).value
            * Abs(cr.positions_held)

\* --- C12 --------------------------------------------------------------------
\* C12: get_point_value resolves in a fixed order.  A symbol of the static
\* table gets the table value whatever the contract metadata; otherwise the
\* value is derived from priceMagnifier and mdSizeMultiplier; the contract
\* multiplier is used only when the symbol is not in the table and neither
\* derivation applies; every path but the table hit logs a warning.
DerivesByMagnifier(f) == f.price_magnifier > 1 /\ f.md_size_multiplier # None

DerivesBySize(f) == f.md_size_multiplier # None /\ f.md_size_multiplier > 1

C12_PointValueOrder ==
    cr.op = "get_point_value"
    => /\ cr.symbol \in DOMAIN CONTRACT_POINT_VALUES
            => /\ cr.point_value = CONTRACT_POINT_VALUES[cr.symbol]
               /\ ~cr.warned
       /\ (cr.symbol \notin DOMAIN CONTRACT_POINT_VALUES
           /\ DerivesByMagnifier(cr))
            => cr.point_value
                 = (cr.md_size_multiplier * 100) \div cr.price_magnifier
       /\ (cr.symbol \notin DOMAIN CONTRACT_POINT_VALUES
           /\ ~DerivesByMagnifier(cr) /\ DerivesBySize(cr))
            => cr.point_value = cr.md_size_multiplier * 100
       /\ cr.path = "multiplier"
            => /\ cr.symbol \notin DOMAIN CONTRACT_POINT_VALUES
               /\ ~DerivesByMagnifier(cr) /\ ~DerivesBySize(cr)
               /\ cr.point_value
                    = (IF cr.multiplier > 0 THEN cr.multiplier ELSE 100)
       /\ cr.symbol \notin DOMAIN CONTRACT_POINT_VALUES => cr.warned

\* a table symbol whose metadata would have derived another value
C12_Witness ==
    /\ cr.op = "get_point_value"
    /\ cr.symbol = "ES"
    /\ cr.price_magnifier = 100
    /\ cr.md_size_multiplier = 50
    /\ cr.point_value = 5000
    /\ cr.path = "table"

\* ---- claims on the ATR engine ----------------------------------------------
\* a symbol whose _process_symbol call of the last run returned normally
Processed(s) == s \in DOMAIN ar /\ ar[s].op = "process_symbol" /\ ~ar[s].failed

\* the tr_history the engine holds for the symbol and timeframe of its frame
TrHistory(s) == DictGet(DictGet(atr_state, s, EmptyDict), ar[s].candle_size, EmptyCandleState).tr_history

LastAtr(s) == DictGet(DictGet(atr_state, s, EmptyDict), ar[s].candle_size, EmptyCandleState).last_atr

RECURSIVE SumOf(_)
SumOf(d) == IF DOMAIN d = {} THEN 0 ELSE LET k == CHOOSE x \in DOMAIN d : TRUE IN d[k] + SumOf(DictDel(d, k))

\* --- C13 --------------------------------------------------------------------
\* C13: after an update that leaves exactly 13 entries in the TR history the
\* ATR is null; after one that leaves exactly 14 entries the ATR is the simple
\* mean of those 14 TR values.
C13_InitializationThreshold ==
    \A s \in DOMAIN ar :
        Processed(s)
        => /\ ar[s].n_trs = 13 => ar[s].atr = None
           /\ ar[s].n_trs = 14
                => ar[s].atr = SumOf(TrHistory(s)) * (AtrScale \div 14)

\* --- C14 --------------------------------------------------------------------
\* the reference chain over the TR history h with keys 1..n: the mean of the
\* TRs 1..14, then atr := (atr * 13 + TR_i) / 14 for i = 15..n
RECURSIVE ReferenceWilder(_, _)
ReferenceWilder(h, i) ==
    IF i = 14
    THEN (h[1] + h[2] + h[3] + h[4] + h[5] + h[6] + h[7] + h[8] + h[9] + h[10]
          + h[11] + h[12] + h[13] + h[14]) * (AtrScale \div 14)
    ELSE 13 * (ReferenceWilder(h, i - 1) \div 14) + h[i] * (AtrScale \div 14)

C15_PreviousAtrIsPriorLastAtr ==
    \A s \in DOMAIN ar :
        (Processed(s) /\ ar[s].n_bars >= 2 /\ ar[s].prior_last_atr # None)
        => ar[s].previous_atr = ar[s].prior_last_atr

\* --- C16 --------------------------------------------------------------------
\* the rows _calculate_true_ranges returned for the frame of the symbol
TrRows(s) == ar[s].rows

C17_ClosedCarriesForward ==
    \A s \in DOMAIN ar :
        (Processed(s) /\ ar[s].status = "CLOSED")
        => /\ ar[s].tr = 0
           /\ ar[s].atr = ar[s].previous_atr
           /\ LastAtr(s) = ar[s].prior_last_atr

\* --- C18 --------------------------------------------------------------------
\* C18: when the TR of the current bar is exactly 0 in an active session, the
\* ATR of the cycle is the previous ATR unchanged.
C18_ZeroTrCarriesForward ==
    \A s \in DOMAIN ar :
        (Processed(s) /\ ar[s].status # "CLOSED" /\ ar[s].n_bars >= 2
         /\ ar[s].tr = 0 /\ ar[s].previous_atr # None)
        => ar[s].atr = ar[s].previous_atr

\* --- C19 --------------------------------------------------------------------
\* C19: with fewer than 2 bars the update returns tr 0.0 or null, atr null and
\* previous_atr equal to the prior ATR or null, and the symbol's entries of the
\* ATR state and of the ATR history are neither created nor modified.
C19_InsufficientBars ==
    [][\A s \in DOMAIN ar' :
          (ar'[s].op = "process_symbol" /\ ~ar'[s].failed /\ ar'[s].n_bars < 2)
          => /\ ar'[s].tr \in {0, None}
             /\ ar'[s].atr = None
             /\ ar'[s].previous_atr \in {ar'[s].prior_last_atr, None}
             /\ (s \in DOMAIN atr_state') = (s \in DOMAIN atr_state)
             /\ s \in DOMAIN atr_state => atr_state'[s] = atr_state[s]
             /\ (s \in DOMAIN atr_history') = (s \in DOMAIN atr_history)
             /\ s \in DOMAIN atr_history => atr_history'[s] = atr_history[s]]_vars

FinishedCycleOver(portfolio) ==
    /\ ui_queue # << >>
    /\ Head(ui_queue) = "stops_updated"
    /\ ui_queue' = Tail(ui_queue)
    /\ DOMAIN final_positions_data = portfolio

\* C21: when the portfolio was {ES, XYZ} and has become {ES}, then after one
\* refresh cycle (one cleanup pass) the persisted ATR state, the persisted ATR
\* history and the ratchet store HighestStopLoss hold no entry for XYZ.
C21_ClosedSymbolLeavesNoEntry ==
    [][FinishedCycleOver({"ES"})
       => /\ "XYZ" \notin DOMAIN atr_state'
          /\ "XYZ" \notin DOMAIN atr_history'
          /\ "XYZ" \notin DOMAIN highest_stop_losses'
          /\ "XYZ" \notin DOMAIN stop_history_file']_vars

\* --- C22 --------------------------------------------------------------------
\* C22: when the user changes the timeframe of ES to a different value, the ATR
\* state and the ATR history of ES are empty right after the change, in the
\* window's memory and in the persisted files.
C22_TimeframeChangeClears ==
    [][symbol_candle_size' # symbol_candle_size
       => /\ DictGet(window_atr_state', "ES", EmptyDict) = EmptyDict
          /\ DictGet(window_atr_history', "ES", EmptyDict) = EmptyDict
          /\ DictGet(atr_state', "ES", EmptyDict) = EmptyDict
          /\ DictGet(atr_history', "ES", EmptyDict) = EmptyDict]_vars

\* --- C23 --------------------------------------------------------------------
\* C23: the three stores are loaded before the first cycle, and when a refresh
\* cycle is over (whether it ended normally or in an error, and even when it
\* only removed ratchet entries in the reconciliation) the persisted copy of
\* each store equals the copy in memory.  Stated for the runs in which the
\* user changes no timeframe.
C23_PersistedEqualsMemory ==
    [][(worker_pc = "done" /\ worker_pc' = "idle" /\ symbol_candle_size = EmptyDict)
       => /\ stop_history_file' = highest_stop_losses'
          /\ atr_state' = window_atr_state'
          /\ atr_history' = window_atr_history']_vars

\* --- C24 --------------------------------------------------------------------
\* the state kept for the symbol has the current shape: candle sizes under the
\* symbol, a dict under every candle size
WellShaped(state, symbol) ==
    symbol \in DOMAIN state
        => /\ IsDict(state[symbol])
           /\ DOMAIN state[symbol] \cap LegacyKeys = {}
           /\ ~\E k \in DOMAIN state[symbol] : ContainsT(k)
           /\ \A size \in DOMAIN state[symbol] : IsDict(state[symbol][size])

\* C24: persisted ATR state of a stale or foreign shape (legacy keys under the
\* symbol, timestamp keys where timeframes are expected, a value that is not a
\* mapping at any level) never makes a refresh cycle fail, and after the cycle
\* it has been cleared: what is persisted has the current shape.
C24_StaleShapesAreCleared ==
    ar # EmptyDict
        => /\ ~ar["ES"].cleanup_raised
           /\ WellShaped(atr_state, "ES")
           /\ ~\E k \in DOMAIN DictGet(atr_history, "ES", EmptyDict) : ContainsT(k)

\* --- C25 --------------------------------------------------------------------
\* C25: in steady state (the stored last_atr of the symbol's timeframe is
\* non-null when the cycle starts) the cycle's current ATR is
\* (stored last_atr * 13 + current TR) / 14, and last_atr is replaced by the
\* current ATR.  The equation is written as
\* atr - last_atr = (tr - last_atr) / 14, which stays within 32 bits.
C25_SteadyStateSmoothing ==
    \A s \in DOMAIN ar :
        (Processed(s) /\ ar[s].computed /\ ar[s].prior_last_atr # None)
        => /\ ar[s].atr # None
           /\ (ar[s].tr * AtrScale - ar[s].prior_last_atr) % 14 = 0
           /\ ar[s].atr - ar[s].prior_last_atr
                = (ar[s].tr * AtrScale - ar[s].prior_last_atr) \div 14
           /\ LastAtr(s) = ar[s].atr

\* --- C26 --------------------------------------------------------------------
\* the bars the cycle that just ran was served for ES
FetchedBy(frame, answer) == IF frame.n_bars = 0 THEN << >> ELSE answer

\* the entries kept are entries that were there, with their values
KeptFrom(kept, done) == \A k \in DOMAIN kept : k \in DOMAIN done /\ kept[k] = done[k]

\* what survives a cleanup with the given cutoff: the entries whose key
\* denotes an instant that is not older than the cutoff, and only those
Retained(kept, done, cutoff) ==
    /\ KeptFrom(kept, done)
    /\ \A k \in DOMAIN kept : fromisoformat(k).ok /\ fromisoformat(k).instant >= cutoff
    /\ \A k \in DOMAIN done :
         (fromisoformat(k).ok /\ fromisoformat(k).instant >= cutoff) => k \in DOMAIN kept

\* C26: after every cleanup pass no tr_history entry of the tracked symbol's
\* timeframe is older than the TR retention cutoff and no ATR history entry is
\* older than the ATR history cutoff, entries whose timestamp does not parse
\* are gone, and the entries within the cutoff are kept with their values.
\* (A step that leaves the clock alone is a cycle; done is what its tasks left
\* for the cleanup.)
C26_CleanupRetention ==
    [][now' = now
       => \E done \in {process_all(atr_state, atr_history, <<"ES">>, symbol_candle_size,
                                   "ES" :> FetchedBy(ar'["ES"], bars'["ES"]), {})} :
            /\ Retained(candle_state(atr_state', "ES", DefaultCandleSize).tr_history,
                        candle_state(done.atr_state, "ES", DefaultCandleSize).tr_history,
                        now' - TrRetention)
            /\ Retained(DictGet(DictGet(atr_history', "ES", EmptyDict), DefaultCandleSize, EmptyDict),
                        DictGet(DictGet(done.atr_history, "ES", EmptyDict), DefaultCandleSize, EmptyDict),
                        now' - AtrRetention)]_vars

\* a cleanup found an entry that does not parse, an entry older than the
\* cutoff and an entry within it: the first two are gone, the third is kept
C26_Witness ==
    /\ Processed("ES")
    /\ ar["ES"].computed
    /\ \E i, j, k \in DOMAIN ar["ES"].trs :
         /\ ar["ES"].trs[i].ts = CorruptKey
         /\ ar["ES"].trs[j].ts >= 0
         /\ ar["ES"].trs[j].ts < now - TrRetention
         /\ ar["ES"].trs[k].ts >= now - TrRetention
         /\ ar["ES"].trs[i].ts \notin DOMAIN TrHistory("ES")
         /\ ar["ES"].trs[j].ts \notin DOMAIN TrHistory("ES")
         /\ ar["ES"].trs[k].ts \in DOMAIN TrHistory("ES")

\* --- C27 --------------------------------------------------------------------
\* the last_atr kept for ES under the default timeframe, None where there is
\* no such state
StoredLastAtr(state) == candle_state(state, "ES", DefaultCandleSize).last_atr

\* C27: once the last_atr of a symbol's timeframe is non-null it stays
\* non-null after every later cycle (the symbol stays in the portfolio and its
\* timeframe is never changed here).
C27_LastAtrStaysNonNull ==
    [][StoredLastAtr(atr_state) # None => StoredLastAtr(atr_state') # None]_vars

\* --- C28 --------------------------------------------------------------------
\* the tr_history the update computed the ATR from, as a dict
Merged(s) ==
    [ts \in {ar[s].trs[i].ts : i \in DOMAIN ar[s].trs} |->
        (CHOOSE item \in {ar[s].trs[i] : i \in DOMAIN ar[s].trs} : item.ts = ts).tr]

\* C28: an update merges the TR of every fetched bar that has a predecessor
\* under the bar's own timestamp; the entry of the most recent timestamp is
\* overwritten, and every other entry tr_history held before the update keeps
\* its stored value.
C28_MergeOnlyAdds ==
    (Processed("ES") /\ ar["ES"].computed)
    => /\ \A i \in 2..Len(bars["ES"]) :
            /\ bars["ES"][i].date \in DOMAIN Merged("ES")
            /\ (i = Len(bars["ES"]) \/ bars["ES"][i].date \notin DOMAIN ar["ES"].trs_before)
                 => Merged("ES")[bars["ES"][i].date]
                      = TrueRange(bars["ES"][i].high, bars["ES"][i].low, bars["ES"][i - 1].close)
       /\ \A ts \in DOMAIN ar["ES"].trs_before :
            /\ ts \in DOMAIN Merged("ES")
            /\ ts # NewestDate(bars["ES"]) => Merged("ES")[ts] = ar["ES"].trs_before[ts]

\* --- C29 --------------------------------------------------------------------
\* C29: the ATR computation takes the tr_history entries in the order of the
\* instants their keys denote, however the timestamps are written: no entry
\* comes before an entry of an earlier instant.
C29_ChronologicalOrder ==
    ("ES" \in DOMAIN ar /\ ar["ES"].op = "sorted_trs")
    => \A i, j \in DOMAIN ar["ES"].trs :
          i < j => fromisoformat(ar["ES"].trs[i].ts).instant
                     <= fromisoformat(ar["ES"].trs[j].ts).instant

\* --- C30 --------------------------------------------------------------------
\* bars are missing between two consecutive entries of the history
HasGap(trs) ==
    \E i \in 1..(Len(trs) - 1) :
        trs[i].ts >= 0 /\ trs[i + 1].ts > trs[i].ts + 1

\* C30: when the chain cannot be reconstructed from tr_history (bars are
\* missing in it) and 14 TRs precede the current bar, the previous ATR is the
\* simple average of those 14 TRs and the current ATR is smoothed from it.
C30_FallbackAverage ==
    (Processed("ES") /\ ar["ES"].computed /\ Len(ar["ES"].trs) >= 15 /\ HasGap(ar["ES"].trs))
    => /\ ar["ES"].previous_atr
            = Mean14(SumTr(ar["ES"].trs, Len(ar["ES"].trs) - 14, Len(ar["ES"].trs) - 1))
       /\ ar["ES"].atr = WilderSmooth(ar["ES"].previous_atr, ar["ES"].tr)

\* --- C31 --------------------------------------------------------------------
\* what a dict holds under a key, as a sequence: empty where the key is absent
Entry(d, k) == IF k \in DOMAIN d THEN <<d[k]>> ELSE << >>

\* the step leaves the ATR state, the ATR history and the ratchet entry of
\* every symbol other than a as they were
OthersUntouched(a) ==
    \A b \in Symbols \ {a} :
        /\ Entry(updated_atr_state', b) = Entry(updated_atr_state, b)
        /\ Entry(updated_atr_history', b) = Entry(updated_atr_history, b)
        /\ Entry(highest_stop_losses', b) = Entry(highest_stop_losses, b)

\* the task of a, finishing at this step among the other tasks, returned and
\* left for a what _process_symbol does on the dicts the run loaded
AsAlone(a) ==
    \E alone \in {process_symbol(atr_state, atr_history, a, ar[a].candle_size,
                                 IF ar'[a].failed THEN << >> ELSE bars'[a], ar'[a].failed)} :
        /\ alone.result = [tr |-> ar'[a].tr, atr |-> ar'[a].atr, previous_atr |-> ar'[a].previous_atr]
        /\ Entry(alone.atr_state, a) = Entry(updated_atr_state', a)
        /\ Entry(alone.atr_history, a) = Entry(updated_atr_history', a)

\* the stop of a is the one compute_stop_loss gives on a store that holds
\* nothing but the entry of a
StopAsAlone(a) ==
    \E alone \in {compute_stop_loss([s \in DOMAIN highest_stop_losses \cap {a} |-> highest_stop_losses[s]], a, PositionSnapshot(a).positions_held, PositionSnapshot(a).current_price, AtrToThousandths(ar[a].atr), DefaultAtrRatio, PositionSnapshot(a).min_tick, TRUE)} :
        /\ final_positions_data'[a].computed_stop_loss = alone.stop
        /\ final_positions_data'[a].stop_status = alone.status
        /\ Entry(highest_stop_losses', a) = Entry(alone.store, a)

\* C31: in whatever order the tasks of the gather finish, the result and the
\* ATR state of each symbol are those of processing the symbol alone, and
\* processing a symbol (its task, then its position) never changes the ATR
\* state, the ATR history or the ratchet entry of another symbol.
C31_TasksAreIndependent ==
    [][/\ (worker_pc = "gather" /\ todo' # todo)
            => \A a \in todo \ todo' : OthersUntouched(a) /\ AsAlone(a)
       /\ (worker_pc = "positions" /\ todo' # todo)
            => \A a \in todo \ todo' : OthersUntouched(a) /\ StopAsAlone(a)]_vars

\* the task of XYZ, second in the list, has finished with an ATR while the
\* task of ES is still waiting, and ES has state from an earlier cycle
C31_Witness ==
    /\ worker_pc = "gather"
    /\ todo = {"ES"}
    /\ ar["XYZ"].op = "process_symbol"
    /\ ar["XYZ"].computed
    /\ ar["XYZ"].atr # None
    /\ "ES" \in DOMAIN updated_atr_state
    /\ "XYZ" \in DOMAIN updated_atr_state

\* --- C32 --------------------------------------------------------------------
\* C32: at most one refresh cycle runs at a time.  A cycle starts only when
\* no worker is running, every position of the cycle before it is processed
\* and every signal of that cycle is handled; while a worker is running a
\* refresh request starts nothing; once the worker has finished a request
\* starts a new cycle.
C32_OneCycleAtATime ==
    /\ [][(worker_pc' = "reconcile" /\ worker_pc # "reconcile")
            => (worker_pc = "idle" /\ todo = {} /\ ui_queue = << >>)]_vars
    /\ [](worker_pc # "idle" => ~ENABLED StartWorker)
    /\ [](worker_pc = "idle" => ENABLED StartWorker)

\* a second cycle is in its calculations after a first one was completed and
\* handled, and a request that arrives now starts nothing
C32_Witness ==
    /\ worker_pc = "calc"
    /\ todo # {}
    /\ DOMAIN window_atr_state # {}
    /\ ~ENABLED StartWorker

\* the step in which stage 4 of a cycle ends
CycleCompletes == worker_pc = "calc" /\ worker_pc' = "done"

C34_ModifiesNotDuplicates ==
    [][CycleCompletes =>
         \A s \in DOMAIN orders_to_submit' : Len(open_orders'[s]) <= 1]_vars

\* the ratchet value of an enabled long position is strictly better than
\* every live stop of the symbol, of which there is at least one
RatchetAheadOfBroker(s) ==
    /\ symbol_stop_enabled[s]
    /\ s \in DOMAIN highest_stop_losses
    /\ open_orders[s] # << >>
    /\ \A i \in 1..Len(open_orders[s]) : open_orders[s][i] < highest_stop_losses[s]

\* submission is on, the symbol is enabled, its market is active and its
\* stop stays at the broker
SubmissionPossible(s) ==
    /\ send_adaptive_stops
    /\ symbol_stop_enabled[s]
    /\ StartsWithActive(DictGet(market_statuses, s, ""))
    /\ s \in broker_stops

\* the cycle that has just ended submitted an order for the symbol at the
\* ratchet value
SubmittedAtRatchet(s) ==
    /\ worker_pc = "done"
    /\ s \in DOMAIN orders_to_submit
    /\ s \in DOMAIN highest_stop_losses
    /\ orders_to_submit[s] = highest_stop_losses[s]

\* C35: when, between two cycles, the ratchet value of an enabled symbol is
\* strictly better than the stop at the broker, then once submission is on and
\* the market is active a later cycle submits an order at the ratchet value
C35_RatchetReachesBroker ==
    \A s \in OrderPortfolio :
        []((worker_pc = "idle" /\ RatchetAheadOfBroker(s) /\ []SubmissionPossible(s))
              => <>SubmittedAtRatchet(s))

\* every symbol of the dict holds data under its active timeframe only, as
\* the window's setting is after the step
OnlyActiveTimeframe(d) ==
    \A s \in DOMAIN d : DOMAIN d[s] \subseteq {get_candle_size(symbol_candle_size', s)}

\* C36: when the timeframe of a symbol was changed while a cycle was in
\* flight, the completion of the cycle puts nothing that was computed for the
\* old timeframe into the window's dicts or into the files
C36_NoStaleTimeframeData ==
    [][/\ window_atr_state' # window_atr_state => OnlyActiveTimeframe(window_atr_state')
       /\ window_atr_history' # window_atr_history => OnlyActiveTimeframe(window_atr_history')
       /\ atr_state' # atr_state => OnlyActiveTimeframe(atr_state')
       /\ atr_history' # atr_history => OnlyActiveTimeframe(atr_history')]_vars

\* _process_symbol run once, and run again on what the first run left, with
\* the same bars and timeframe
ProcessedOnce(fetched) ==
    process_symbol(atr_state, atr_history, "ES", get_candle_size(symbol_candle_size, "ES"), fetched, FALSE)

ProcessedAgain(once, fetched) ==
    process_symbol(once.atr_state, once.atr_history, "ES", get_candle_size(symbol_candle_size, "ES"), fetched, FALSE)

\* C37: processing a symbol twice with the same bars and timeframe is
\* idempotent: the second run returns the tr, atr and previous_atr of the
\* first and leaves the state and the history as the first run left them
C37_ProcessSymbolIdempotent ==
    \A fetched \in Fetchable("ES") :
    \A once \in {ProcessedOnce(fetched)} :
    \A again \in {ProcessedAgain(once, fetched)} :
        /\ again.result = once.result
        /\ again.atr_state = once.atr_state
        /\ again.atr_history = once.atr_history

\* the engine holds a history of ES, and bars that are served again give an
\* ATR: the second run of the pair has something to smooth
C37_Witness ==
    /\ "ES" \in DOMAIN atr_state
    /\ "ES" \in DOMAIN bars
    /\ new_bars >= 1
    /\ bars["ES"] \in Fetchable("ES")
    /\ \E once \in {ProcessedOnce(bars["ES"])} :
          /\ once.result.atr # None
          /\ once.result.tr > 0
          /\ once.atr_state = atr_state

\* ATRProcessor.run returns: the gather is done and the cleanup did not raise
RunCompletes == worker_pc = "gather" /\ worker_pc' = "positions"

\* the dict has entries for symbols of the portfolio only, each under the
\* timeframe sizes gives for the symbol
OnlyPortfolioUnder(d, portfolio, sizes) ==
    /\ DOMAIN d \subseteq portfolio
    /\ \A s \in DOMAIN d : DOMAIN d[s] \subseteq {get_candle_size(sizes, s)}

\* C38: after every completed ATRProcessor.run the state and the history of
\* each portfolio symbol hold data under the symbol's configured candle size
\* only ('1 day' when none is configured), and no other symbol has an entry
C38_OnlyActiveTimeframeAfterRun ==
    [][RunCompletes =>
         /\ OnlyPortfolioUnder(atr_state', DOMAIN ar, symbol_candle_size')
         /\ OnlyPortfolioUnder(atr_history', DOMAIN ar, symbol_candle_size')]_vars

\* C39: while a symbol is disabled by the user, highest_stop_losses holds no
\* entry for it at the end of a refresh cycle
C39_DisabledSymbolHasNoRatchet ==
    [][CycleCompletes =>
         \A s \in Symbols :
            ~symbol_stop_enabled'[s] => s \notin DOMAIN highest_stop_losses']_vars

\* calculate_tr_and_atr was called on the frame kept in bars
TrAtrCalled == "ES" \in DOMAIN ar /\ ar["ES"].op = "calculate_tr_and_atr"

\* C40: calculate_tr_and_atr never raises: with fewer than 2 bars it returns
\* (0.0, null), and on at least 2 bars with a null prior_atr it returns the TR
\* with the fallback ATR or with null, also when the TR is 0 and when the
\* fallback series is missing or empty
C40_TrAndAtrNeverRaises ==
    TrAtrCalled =>
        /\ ~ar["ES"].raised
        /\ Len(bars["ES"]) < 2 => (ar["ES"].tr = 0 /\ ar["ES"].atr = None)
        /\ (Len(bars["ES"]) >= 2 /\ ar["ES"].prior_atr = None)
              => ar["ES"].atr \in {None, FallbackAtr}

====
